---- MODULE Spec2Model ----
(***************************************************************************)
(* A model of the pharmacy sales chatbot: the conversation state           *)
(* (core/models.py), the flow manager (core/conversation_manager.py), the  *)
(* action handler (core/action_handler.py), the directory lookup           *)
(* (api/integration.py) and the orchestrating PharmacySalesChatbot         *)
(* (chatbot.py).  Texts are TLA+ strings; a Python Optional is the empty   *)
(* tuple (None) or a one-element tuple holding the value.                  *)
(***************************************************************************)
EXTENDS Naturals, Sequences, FiniteSets, TLC

\* ------------------------------------------------------------------------
\* Bounds of the model
\* ------------------------------------------------------------------------
\* process_message calls explored (over all conversations of one chatbot)
MaxTurns == 2
\* start_conversation calls explored on one chatbot object
MaxStarts == 2
\* direct calls a host makes on the ActionHandler and the ConversationState
MaxCalls == 3

\* ------------------------------------------------------------------------
\* Optional values
\* ------------------------------------------------------------------------
None == <<>>
Some(v) == <<v>>
IsSome(o) == o # <<>>
Val(o) == o[1]
\* Python truthiness of an Optional[str] / Optional[int]
TruthyStr(o) == IsSome(o) /\ Val(o) # ""
TruthyInt(o) == IsSome(o) /\ Val(o) # 0

\* a local variable: the value v is computed once and bound in F
With(v, F(_)) == F(v)

\* ------------------------------------------------------------------------
\* Text primitives (str slicing, str.lower, the `in` operator, re classes)
\* ------------------------------------------------------------------------
Ch(s, i) == IF i >= 1 /\ i <= Len(s) THEN SubSeq(s, i, i) ELSE ""

Lowers == {"a","b","c","d","e","f","g","h","i","j","k","l","m",
           "n","o","p","q","r","s","t","u","v","w","x","y","z"}
Uppers == {"A","B","C","D","E","F","G","H","I","J","K","L","M",
           "N","O","P","Q","R","S","T","U","V","W","X","Y","Z"}
Digits == {"0","1","2","3","4","5","6","7","8","9"}
Letters == Lowers \cup Uppers
WordChars == Letters \cup Digits \cup {"_"}
Spaces == {" "}

LowerC(c) ==
  CASE c = "A" -> "a" [] c = "B" -> "b" [] c = "C" -> "c" [] c = "D" -> "d"
    [] c = "E" -> "e" [] c = "F" -> "f" [] c = "G" -> "g" [] c = "H" -> "h"
    [] c = "I" -> "i" [] c = "J" -> "j" [] c = "K" -> "k" [] c = "L" -> "l"
    [] c = "M" -> "m" [] c = "N" -> "n" [] c = "O" -> "o" [] c = "P" -> "p"
    [] c = "Q" -> "q" [] c = "R" -> "r" [] c = "S" -> "s" [] c = "T" -> "t"
    [] c = "U" -> "u" [] c = "V" -> "v" [] c = "W" -> "w" [] c = "X" -> "x"
    [] c = "Y" -> "y" [] c = "Z" -> "z" [] OTHER -> c

RECURSIVE LowerStr(_)
LowerStr(s) ==
  IF Len(s) = 0 THEN ""
  ELSE LowerC(Ch(s, 1)) \o LowerStr(SubSeq(s, 2, Len(s)))

\* lit occurs in s starting at position i
At(s, i, lit) ==
  /\ i >= 1
  /\ i + Len(lit) - 1 <= Len(s)
  /\ SubSeq(s, i, i + Len(lit) - 1) = lit

\* Python `k in s`
Contains(s, k) == \E i \in 1..(Len(s) + 1) : At(s, i, k)

\* Python any(keyword in s for keyword in keywords)
AnyIn(s, keywords) == \E k \in keywords : Contains(s, k)

\* length of the maximal run of characters of class cls starting at i
RECURSIVE RunLen(_, _, _)
RunLen(s, i, cls) ==
  IF i <= Len(s) /\ Ch(s, i) \in cls THEN 1 + RunLen(s, i + 1, cls) ELSE 0

\* regex \b at the gap before position p
Boundary(s, p) == (Ch(s, p - 1) \in WordChars) # (Ch(s, p) \in WordChars)

\* str.strip() for the blanks that occur in the messages
RECURSIVE Strip(_)
Strip(s) ==
  IF Len(s) = 0 THEN s
  ELSE IF Ch(s, 1) \in Spaces THEN Strip(SubSeq(s, 2, Len(s)))
  ELSE IF Ch(s, Len(s)) \in Spaces THEN Strip(SubSeq(s, 1, Len(s) - 1))
  ELSE s

\* the largest element of a non-empty set of naturals
MaxOf(S) == CHOOSE x \in S : \A y \in S : y <= x
MinOf(S) == CHOOSE x \in S : \A y \in S : x <= y

\* ------------------------------------------------------------------------
\* core/conversation_manager.py : text analysis
\* ------------------------------------------------------------------------
\* the character classes of email_patterns[0]:
\*   \b[A-Za-z0-9._%+-]+@[A-Za-z0-9.-]+\.[A-Z|a-z]{2,}\b
LocalCls == Letters \cup Digits \cup {".", "_", "%", "+", "-"}
DomainCls == Letters \cup Digits \cup {".", "-"}
TldCls == Letters \cup {"|"}

\* End (exclusive) of the regex match of email_patterns[0] that starts at
\* position i, or 0 when there is none.  The local part is the maximal run
\* ("@" is outside its class); the domain is greedy, so the dot taken is the
\* last one that is followed by a top-level part of two or more characters
\* ending at a word boundary.
EmailMatchEnd(s, i) ==
  LET n == RunLen(s, i, LocalCls)
      d == i + n + 1
      m == RunLen(s, d, DomainCls)
      Ends(L) == {d + L + 1 + t : t \in
                    {u \in 2..RunLen(s, d + L + 1, TldCls) :
                        Boundary(s, d + L + 1 + u)}}
      Ls == {L \in 1..(m - 1) : Ch(s, d + L) = "." /\ Ends(L) # {}}
  IN IF /\ Boundary(s, i)
        /\ n >= 1
        /\ Ch(s, i + n) = "@"
        /\ Ls # {}
     THEN MaxOf(Ends(MaxOf(Ls)))
     ELSE 0

\* re.findall(pattern, text): the non-overlapping matches, left to right
RECURSIVE FindAllEmails(_, _)
FindAllEmails(s, pos) ==
  IF pos > Len(s) THEN <<>>
  ELSE LET e == EmailMatchEnd(s, pos)
       IN IF e = 0 THEN FindAllEmails(s, pos + 1)
          ELSE <<SubSeq(s, pos, e - 1)>> \o FindAllEmails(s, e)

\* _extract_emails returns list(set(emails)): the distinct matches, in the
\* iteration order of a Python set of strings, which is not determined by
\* the text.  The result is modelled as the set; a caller taking element 0
\* takes any member.
ExtractEmails(text) ==
  LET found == FindAllEmails(text, 1)
  IN {found[k] : k \in 1..Len(found)}

EmailKeywords == {"email", "send me", "mail me", "information", "details", "send"}
IsEmailRequest(message) == AnyIn(message, EmailKeywords)

\* the callback keywords without 'call'
CallbackKeywordsWithoutCall ==
  {"callback", "call back", "call me", "schedule", "phone"}

CallbackKeywords == {"callback", "call back", "call me", "schedule", "call", "phone"}
IsCallbackRequest(message) == AnyIn(message, CallbackKeywords)

IntroIndicators == {"pharmacy", "calling from", "i'm from", "located",
                    "we fill", "prescriptions"}
IsPharmacyIntroduction(message) == AnyIn(message, IntroIndicators)

PricingKeywords == {"pricing", "price", "cost", "rates", "volume", "discount",
                    "competitive"}
IsPricingInquiry(message) == AnyIn(message, PricingKeywords)

Greetings == {"hello", "hi", "hey", "good morning", "good afternoon"}
IsGreeting(message) == AnyIn(message, Greetings)

time_patterns ==
  <<"tomorrow morning", "tomorrow afternoon", "tomorrow",
    "this afternoon", "this morning", "next week",
    "monday", "tuesday", "wednesday", "thursday", "friday">>

\* the first pattern, in list order, that occurs in the message; else None
ExtractTimePreference(message) ==
  LET hits == {k \in 1..Len(time_patterns) : Contains(message, time_patterns[k])}
  IN IF hits = {} THEN None ELSE Some(time_patterns[MinOf(hits)])

\* length of the maximal run of characters matching [^,.] starting at i
RECURSIVE RunLenNotCommaDot(_, _)
RunLenNotCommaDot(s, i) ==
  IF i <= Len(s) /\ Ch(s, i) \notin {",", "."}
  THEN 1 + RunLenNotCommaDot(s, i + 1) ELSE 0

\* re.search(prefix ([^,.]+), s, re.IGNORECASE): group 1 of the leftmost
\* match, or None.  low is s lower-cased (same positions).
SearchPrefixRun(s, low, prefix) ==
  LET starts == {i \in 1..Len(s) :
                   At(low, i, prefix) /\ RunLenNotCommaDot(s, i + Len(prefix)) >= 1}
  IN IF starts = {} THEN None
     ELSE LET g == MinOf(starts) + Len(prefix)
          IN Some(SubSeq(s, g, g + RunLenNotCommaDot(s, g) - 1))

\* re.search("at ([^,.]+pharmacy)", s, re.IGNORECASE): the run is greedy,
\* so group 1 ends with the last "pharmacy" of the run
SearchAtPharmacy(s, low) ==
  LET Ps(i) == {p \in (i + 4)..Len(s) :
                  At(low, p, "pharmacy")
                  /\ p + 7 <= i + 2 + RunLenNotCommaDot(s, i + 3)}
      starts == {i \in 1..Len(s) : At(low, i, "at ") /\ Ps(i) # {}}
  IN IF starts = {} THEN None
     ELSE LET i == MinOf(starts)
          IN Some(SubSeq(s, i + 3, MaxOf(Ps(i)) + 7))

\* re.search("([^,.]*pharmacy[^,.]*)", s, re.IGNORECASE): the leftmost
\* start whose run holds "pharmacy"; group 1 is the whole run from there
SearchAnyPharmacy(s, low) ==
  LET starts == {i \in 1..Len(s) :
                   \E p \in i..Len(s) :
                      At(low, p, "pharmacy")
                      /\ p + 7 <= i - 1 + RunLenNotCommaDot(s, i)}
  IN IF starts = {} THEN None
     ELSE LET i == MinOf(starts)
          IN Some(SubSeq(s, i, i - 1 + RunLenNotCommaDot(s, i)))

\* re.search(prefix ([^,.]+,?\s*[A-Z]{2}), s, re.IGNORECASE): the run is
\* greedy and gives back characters until an optional comma, blanks and two
\* letters follow it
SearchPlaceState(s, low, prefix) ==
  LET \* end (inclusive) of the match when the run has length K, or 0
      EndFor(g, K) ==
        LET q  == g + K
            q1 == IF Ch(s, q) = "," THEN q + 1 ELSE q
            q2 == q1 + RunLen(s, q1, Spaces)
        IN IF Ch(s, q2) \in Letters /\ Ch(s, q2 + 1) \in Letters
           THEN q2 + 1 ELSE 0
      Ks(g) == {K \in 1..RunLenNotCommaDot(s, g) : EndFor(g, K) # 0}
      starts == {i \in 1..Len(s) : At(low, i, prefix) /\ Ks(i + Len(prefix)) # {}}
  IN IF starts = {} THEN None
     ELSE LET g == MinOf(starts) + Len(prefix)
          IN Some(SubSeq(s, g, EndFor(g, MaxOf(Ks(g)))))

FirstSome(opts) ==
  LET hits == {k \in 1..Len(opts) : IsSome(opts[k])}
  IN IF hits = {} THEN None ELSE opts[MinOf(hits)]

\* _extract_pharmacy_info: [pharmacy_name, location], each None when no
\* pattern of its list matches (the key is then absent from the dict)
ExtractPharmacyInfo(message) ==
  LET low == LowerStr(message)
      name == FirstSome(<<SearchPrefixRun(message, low, "calling from "),
                          SearchPrefixRun(message, low, "i'm from "),
                          SearchAtPharmacy(message, low),
                          SearchAnyPharmacy(message, low)>>)
      loc == FirstSome(<<SearchPlaceState(message, low, "in "),
                         SearchPrefixRun(message, low, "located in "),
                         SearchPlaceState(message, low, "from ")>>)
  IN [pharmacy_name |-> IF IsSome(name) THEN Some(Strip(Val(name))) ELSE None,
      location |-> IF IsSome(loc) THEN Some(Strip(Val(loc))) ELSE None]

DigitVal(c) ==
  CASE c = "0" -> 0 [] c = "1" -> 1 [] c = "2" -> 2 [] c = "3" -> 3
    [] c = "4" -> 4 [] c = "5" -> 5 [] c = "6" -> 6 [] c = "7" -> 7
    [] c = "8" -> 8 [] c = "9" -> 9

\* int(volume_str.replace(',', ''))
RECURSIVE ParseVolume(_, _)
ParseVolume(g, acc) ==
  IF Len(g) = 0 THEN acc
  ELSE IF Ch(g, 1) = "," THEN ParseVolume(SubSeq(g, 2, Len(g)), acc)
  ELSE ParseVolume(SubSeq(g, 2, Len(g)), 10 * acc + DigitVal(Ch(g, 1)))

\* the text g matches \d+,?\d*
IsVolumeGroup(g) ==
  /\ Len(g) >= 1
  /\ Ch(g, 1) \in Digits
  /\ \A k \in 1..Len(g) : Ch(g, k) \in Digits \cup {","}
  /\ Cardinality({k \in 1..Len(g) : Ch(g, k) = ","}) <= 1

\* re.search("(\d+,?\d*)\s*" + unit, s, re.IGNORECASE): group 1 or None
SearchVolumeBefore(s, low, unit) ==
  LET EndsAt(i) == {e \in (i + 1)..(Len(s) + 1) :
                      /\ IsVolumeGroup(SubSeq(s, i, e - 1))
                      /\ At(low, e + RunLen(s, e, Spaces), unit)}
      starts == {i \in 1..Len(s) : Ch(s, i) \in Digits /\ EndsAt(i) # {}}
  IN IF starts = {} THEN None
     ELSE LET i == MinOf(starts)
          IN Some(SubSeq(s, i, MaxOf(EndsAt(i)) - 1))

\* re.search(word + ".*?(\d+,?\d*)", s, re.IGNORECASE): the first digit
\* after the leftmost word, then the greedy group
SearchVolumeAfter(s, low, word) ==
  LET starts == {i \in 1..Len(s) :
                   At(low, i, word)
                   /\ \E j \in (i + Len(word))..Len(s) : Ch(s, j) \in Digits}
  IN IF starts = {} THEN None
     ELSE LET i  == MinOf(starts)
              j  == MinOf({k \in (i + Len(word))..Len(s) : Ch(s, k) \in Digits})
              d1 == RunLen(s, j, Digits)
              c  == IF Ch(s, j + d1) = "," THEN 1 ELSE 0
              d2 == RunLen(s, j + d1 + c, Digits)
          IN Some(SubSeq(s, j, j + d1 + c + d2 - 1))

\* _extract_rx_volume: the first pattern that matches decides
ExtractRxVolume(message) ==
  LET low == LowerStr(message)
      g == FirstSome(<<SearchVolumeBefore(message, low, "prescriptions"),
                       SearchVolumeBefore(message, low, "rx"),
                       SearchVolumeAfter(message, low, "volume"),
                       SearchVolumeAfter(message, low, "fill")>>)
  IN IF IsSome(g) THEN Some(ParseVolume(Val(g), 0)) ELSE None

\* ------------------------------------------------------------------------
\* core/models.py
\* ------------------------------------------------------------------------
\* str(n) for a natural number
RECURSIVE NatStr(_)
DigitStr(d) ==
  CASE d = 0 -> "0" [] d = 1 -> "1" [] d = 2 -> "2" [] d = 3 -> "3"
    [] d = 4 -> "4" [] d = 5 -> "5" [] d = 6 -> "6" [] d = 7 -> "7"
    [] d = 8 -> "8" [] d = 9 -> "9"
NatStr(n) == IF n < 10 THEN DigitStr(n) ELSE NatStr(n \div 10) \o DigitStr(n % 10)

\* PharmacyData.from_api_response: dict.get with the defaults of the code;
\* a key missing from the dict is None in the record that models the dict
FromApiResponse(api_data) ==
  [name           |-> IF IsSome(api_data.name) THEN Val(api_data.name)
                      ELSE "Unknown Pharmacy",
   phone          |-> IF IsSome(api_data.phone) THEN Val(api_data.phone) ELSE "",
   city           |-> api_data.city,
   state          |-> api_data.state,
   rx_volume      |-> api_data.rxVolume,
   email          |-> api_data.email,
   contact_person |-> api_data.contactPerson]

\* PharmacyData.location_display
LocationDisplay(p) ==
  IF TruthyStr(p.city) /\ TruthyStr(p.state) THEN Val(p.city) \o ", " \o Val(p.state)
  ELSE IF TruthyStr(p.city) THEN Val(p.city)
  ELSE IF TruthyStr(p.state) THEN Val(p.state)
  ELSE "Unknown location"

\* PharmacyData.pharmacy_type, as PharmacyType.value
PharmacyTypeOf(rx_volume) ==
  IF ~TruthyInt(rx_volume) THEN "startup"
  ELSE IF Val(rx_volume) >= 10000 THEN "high_volume"
  ELSE IF Val(rx_volume) >= 5000 THEN "medium_volume"
  ELSE IF Val(rx_volume) >= 1000 THEN "low_volume"
  ELSE "startup"

\* LeadData(phone=phone_number)
NewLeadData(phone) ==
  [phone |-> phone, pharmacy_name |-> None, contact_person |-> None,
   email |-> None, location |-> None, rx_volume |-> None,
   interests |-> <<>>, notes |-> ""]

\* completion_percentage counting the phone as a sixth tracked field
CompletionOverSixFields(lead) ==
  LET completed ==
        (IF TruthyStr(lead.pharmacy_name) THEN 1 ELSE 0)
        + (IF TruthyStr(lead.contact_person) THEN 1 ELSE 0)
        + (IF TruthyStr(lead.email) THEN 1 ELSE 0)
        + (IF TruthyStr(lead.location) THEN 1 ELSE 0)
        + (IF TruthyInt(lead.rx_volume) THEN 1 ELSE 0)
        + (IF lead.phone # "" THEN 1 ELSE 0)
  IN (completed * 100) \div 6

\* LeadData.completion_percentage: int((completed / 5) * 100); the float
\* product is 0.0, 20.000000000000004, 40.0, 60.00000000000001, 80.0, 100.0
CompletionPercentage(lead) ==
  LET completed ==
        (IF TruthyStr(lead.pharmacy_name) THEN 1 ELSE 0)
        + (IF TruthyStr(lead.contact_person) THEN 1 ELSE 0)
        + (IF TruthyStr(lead.email) THEN 1 ELSE 0)
        + (IF TruthyStr(lead.location) THEN 1 ELSE 0)
        + (IF TruthyInt(lead.rx_volume) THEN 1 ELSE 0)
  IN (completed * 100) \div 5

\* ConversationState(phone_number, pharmacy_data, lead_data, status=ACTIVE)
NewConversationState(phone, pharmacy_data, lead_data) ==
  [phone_number |-> phone, status |-> "active",
   pharmacy_data |-> pharmacy_data, lead_data |-> lead_data,
   messages |-> <<>>, actions_taken |-> <<>>]

\* ConversationState.is_known_pharmacy
IsKnownPharmacy(st) == IsSome(st.pharmacy_data)

\* ConversationState.current_pharmacy_name
CurrentPharmacyName(st) ==
  IF IsSome(st.pharmacy_data) THEN Val(st.pharmacy_data).name
  ELSE IF IsSome(st.lead_data) /\ TruthyStr(Val(st.lead_data).pharmacy_name)
       THEN Val(Val(st.lead_data).pharmacy_name)
  ELSE "your pharmacy"

\* has_email true for every known pharmacy
HasEmailWhenKnown(st) ==
  \/ IsSome(st.pharmacy_data)
  \/ IsSome(st.lead_data) /\ TruthyStr(Val(st.lead_data).email)

\* ConversationState.has_email
HasEmail(st) ==
  \/ IsSome(st.pharmacy_data) /\ TruthyStr(Val(st.pharmacy_data).email)
  \/ IsSome(st.lead_data) /\ TruthyStr(Val(st.lead_data).email)

\* ConversationState.email_address
EmailAddress(st) ==
  IF IsSome(st.pharmacy_data) /\ TruthyStr(Val(st.pharmacy_data).email)
  THEN Val(st.pharmacy_data).email
  ELSE IF IsSome(st.lead_data) /\ TruthyStr(Val(st.lead_data).email)
  THEN Val(st.lead_data).email
  ELSE None

\* ConversationState.add_message (timestamp and metadata are not modelled)
AddMessage(st, role, content) ==
  [st EXCEPT !.messages = Append(@, [role |-> role, content |-> content])]

\* add_action without its membership test
AlwaysAppend(actions, action) == Append(actions, action)

\* the list `actions` with `action` appended unless it is already in it
AppendIfAbsent(actions, action) ==
  IF \E k \in 1..Len(actions) : actions[k] = action
  THEN actions ELSE Append(actions, action)

\* add_action inserting a new name at the front of the list
AddActionAtFront(st, action) ==
  [st EXCEPT !.actions_taken =
     IF \E k \in 1..Len(@) : @[k] = action THEN @ ELSE <<action>> \o @]

\* ConversationState.add_action
AddAction(st, action) ==
  [st EXCEPT !.actions_taken = AppendIfAbsent(@, action)]

\* ------------------------------------------------------------------------
\* Python dicts with string keys: functions on the set of keys present
\* ------------------------------------------------------------------------
EmptyDict == <<>>
Put(d, k, v) == [x \in (DOMAIN d) \cup {k} |-> IF x = k THEN v ELSE d[x]]
HasKey(d, k) == k \in DOMAIN d
\* d.get(k): the value, None when the key is absent
Get(d, k) == IF k \in DOMAIN d THEN d[k] ELSE None
\* d.get(k, default)
GetOr(d, k, default) == IF k \in DOMAIN d THEN d[k] ELSE default
\* bool(d)
NonEmptyDict(d) == DOMAIN d # {}
\* d.update(e) for a value e that is None (no key) or Some(v)
PutIfSome(d, k, o) == IF IsSome(o) THEN Put(d, k, o) ELSE d

\* ------------------------------------------------------------------------
\* core/conversation_manager.py : ConversationFlowManager
\* ------------------------------------------------------------------------
\* start_conversation creating the LeadData whether or not a pharmacy is known
StartWithLeadAlways(phone_number, pharmacy_data) ==
  NewConversationState(phone_number, pharmacy_data,
                       Some(NewLeadData(phone_number)))

\* ConversationFlowManager.start_conversation
ManagerStartConversation(phone_number, pharmacy_data) ==
  LET lead_data == IF IsSome(pharmacy_data) THEN None
                   ELSE Some(NewLeadData(phone_number))
  IN NewConversationState(phone_number, pharmacy_data, lead_data)

\* The values emails[0] can take in analyze_user_message: None when no
\* address is found, else any of the distinct addresses found.
FirstEmailChoices(message) ==
  With(ExtractEmails(message),
       LAMBDA emails : IF emails = {} THEN {None}
                       ELSE {Some(e) : e \in emails})

\* analyze_user_message with the callback test placed before the email test
AnalyzeCallbackFirst(message, st, first) ==
  IF message = ""
  THEN [intent |-> "unclear", entities |-> EmptyDict, confidence |-> 0,
        suggested_actions |-> <<>>]
  ELSE With(LowerStr(message),
            LAMBDA message_lower :
              [intent |-> IF IsCallbackRequest(message_lower) THEN "request_callback"
                          ELSE IF IsEmailRequest(message_lower) THEN "request_email"
                          ELSE IF IsPharmacyIntroduction(message_lower)
                          THEN "pharmacy_introduction"
                          ELSE IF IsPricingInquiry(message_lower) THEN "pricing_inquiry"
                          ELSE IF IsGreeting(message_lower) THEN "greeting"
                          ELSE "general_inquiry",
               entities |-> PutIfSome(EmptyDict, "email", first),
               confidence |-> IF IsCallbackRequest(message_lower) THEN 80
                              ELSE IF IsEmailRequest(message_lower) THEN 80
                              ELSE IF IsPharmacyIntroduction(message_lower) THEN 90
                              ELSE IF IsPricingInquiry(message_lower) THEN 70
                              ELSE IF IsGreeting(message_lower) THEN 60
                              ELSE 50,
               suggested_actions |-> <<>>])

\* ConversationFlowManager.analyze_user_message; `first` is emails[0] (or
\* None for an empty list).  confidence is in hundredths (0.8 is 80).  The
\* values of `entities` are Optionals: the callback branch stores whatever
\* _extract_time_preference returns, None included.
AnalyzeUserMessage(message, st, first) ==
  IF message = ""
  THEN [intent |-> "unclear", entities |-> EmptyDict, confidence |-> 0,
        suggested_actions |-> <<>>]
  ELSE
    LET message_lower == LowerStr(message)
        base == PutIfSome(EmptyDict, "email", first)
    IN IF IsEmailRequest(message_lower)
       THEN [intent |-> "request_email", entities |-> base, confidence |-> 80,
             suggested_actions |->
               IF ~IsSome(first) /\ ~HasEmail(st) THEN <<"ask_for_email">> ELSE <<>>]
       ELSE IF IsCallbackRequest(message_lower)
       THEN [intent |-> "request_callback",
             entities |-> Put(base, "preferred_time",
                              ExtractTimePreference(message_lower)),
             confidence |-> 80, suggested_actions |-> <<>>]
       ELSE IF IsPharmacyIntroduction(message_lower)
       THEN With(ExtractPharmacyInfo(message),
                 LAMBDA pharmacy_info :
                   [intent |-> "pharmacy_introduction",
                    entities |-> PutIfSome(PutIfSome(base, "pharmacy_name",
                                                     pharmacy_info.pharmacy_name),
                                           "location", pharmacy_info.location),
                    confidence |-> 90, suggested_actions |-> <<>>])
       ELSE IF IsPricingInquiry(message_lower)
       THEN With(ExtractRxVolume(message),
                 LAMBDA volume :
                   [intent |-> "pricing_inquiry",
                    entities |-> IF TruthyInt(volume)
                                 THEN Put(base, "rx_volume", volume) ELSE base,
                    confidence |-> 70, suggested_actions |-> <<>>])
       ELSE IF IsGreeting(message_lower)
       THEN [intent |-> "greeting", entities |-> base, confidence |-> 60,
             suggested_actions |-> <<>>]
       ELSE [intent |-> "general_inquiry", entities |-> base, confidence |-> 50,
             suggested_actions |-> <<>>]

\* update_lead_data that keeps a field once it holds a value
UpdateLeadDataKeepsFirst(st, entities) ==
  IF ~IsSome(st.lead_data) THEN st
  ELSE
    LET lead == Val(st.lead_data)
        Field(key, old) == IF HasKey(entities, key) /\ ~IsSome(old)
                           THEN entities[key] ELSE old
    IN [st EXCEPT !.lead_data = Some(
         [lead EXCEPT !.email = Field("email", @),
                      !.pharmacy_name = Field("pharmacy_name", @),
                      !.location = Field("location", @),
                      !.rx_volume = Field("rx_volume", @),
                      !.contact_person = Field("contact_person", @)])]

\* ConversationFlowManager.update_lead_data
UpdateLeadData(st, entities) ==
  IF ~IsSome(st.lead_data) THEN st
  ELSE
    LET lead == Val(st.lead_data)
        Field(key, old) == IF HasKey(entities, key) THEN entities[key] ELSE old
    IN [st EXCEPT !.lead_data = Some(
         [lead EXCEPT !.email = Field("email", @),
                      !.pharmacy_name = Field("pharmacy_name", @),
                      !.location = Field("location", @),
                      !.rx_volume = Field("rx_volume", @),
                      !.contact_person = Field("contact_person", @)])]

\* str(x) of an Optional, as an f-string prints it
OptStr(o) == IF IsSome(o) THEN Val(o) ELSE "None"

\* ConversationFlowManager.determine_response_strategy
DetermineResponseStrategy(analysis, st) ==
  LET intent == analysis.intent
      entities == analysis.entities
      state_hints ==
        IF IsKnownPharmacy(st)
        THEN <<"known_pharmacy",
               "pharmacy_type: " \o PharmacyTypeOf(Val(st.pharmacy_data).rx_volume)>>
        ELSE <<"new_lead">> \o
             (IF IsSome(st.lead_data)
              THEN <<"lead_completeness: "
                     \o NatStr(CompletionPercentage(Val(st.lead_data))) \o "%">>
              ELSE <<>>)
  IN IF intent = "request_email"
     THEN IF ~HasEmail(st)
          THEN [response_type |-> "ask_for_email",
                priority_actions |-> <<"collect_email">>,
                context_hints |-> state_hints,
                personalization_level |-> "medium"]
          ELSE [response_type |-> "send_email",
                priority_actions |-> <<"send_email">>,
                context_hints |-> state_hints,
                personalization_level |-> "medium"]
     ELSE IF intent = "request_callback"
     THEN [response_type |-> "schedule_callback",
           priority_actions |-> <<"schedule_callback">>,
           context_hints |->
             (IF HasKey(entities, "preferred_time")
              THEN <<"preferred_time: " \o OptStr(entities["preferred_time"])>>
              ELSE <<>>) \o state_hints,
           personalization_level |-> "medium"]
     ELSE IF intent = "pharmacy_introduction"
     THEN [response_type |-> "acknowledge_intro",
           priority_actions |-> <<"update_lead_data", "assess_fit">>,
           context_hints |-> state_hints,
           personalization_level |-> "high"]
     ELSE IF intent = "pricing_inquiry"
     THEN [response_type |-> "pricing_discussion",
           priority_actions |-> <<"assess_volume", "present_value_prop">>,
           context_hints |-> state_hints,
           personalization_level |->
             IF IsSome(st.pharmacy_data) THEN "high" ELSE "medium"]
     ELSE [response_type |-> "conversational",
           priority_actions |-> <<>>,
           context_hints |-> state_hints,
           personalization_level |-> "medium"]

\* ------------------------------------------------------------------------
\* The collaborators (utils/function_calls.py and the LLM client).  What a
\* collaborator does in a turn is an input of the turn:
\*   email     : send_email returns True ("ok"), returns False ("fail") or
\*               raises ("raise")
\*   callback  : schedule_callback returns its record or raises
\*   follow_up : create_follow_up_task returns its record or raises
\*   lead      : log_lead_information returns True, returns False or raises
\*   llm       : chat.completions.create returns a reply or raises
\* ------------------------------------------------------------------------
Outcomes ==
  [email : {"ok", "fail", "raise"}, callback : {"ok", "raise"},
   follow_up : {"ok", "raise"}, lead : {"ok", "fail", "raise"},
   llm : {"ok", "raise"}]

\* str(e) of the exception a failing collaborator raises
ExcText == "ConnectionError: upstream 503"
\* the reply of the LLM when it answers
LlmText == "Happy to help with that."

\* ------------------------------------------------------------------------
\* core/action_handler.py : ActionHandler
\* ------------------------------------------------------------------------
\* ActionResult(success, message, data); `calls` lists the collaborator
\* calls the handler made, in order, each with what the collaborator did
Result(success, message, data, calls) ==
  [success |-> success, message |-> message, data |-> data, calls |-> calls]

\* the PharmacyType whose benefits text _prepare_new_lead_email selects
LeadEmailBenefits(lead) ==
  IF TruthyInt(lead.rx_volume)
  THEN IF Val(lead.rx_volume) >= 10000 THEN "high_volume"
       ELSE IF Val(lead.rx_volume) >= 5000 THEN "medium_volume"
       ELSE "low_volume"
  ELSE "startup"

\* _prepare_new_lead_email: the subject and the benefits block of the body
PrepareNewLeadEmail(st) ==
  LET lead == Val(st.lead_data)
      pharmacy_name == IF TruthyStr(lead.pharmacy_name)
                       THEN Val(lead.pharmacy_name) ELSE "your pharmacy"
  IN [subject |-> "Welcome to Pharmesol - " \o pharmacy_name,
      benefits |-> LeadEmailBenefits(lead)]

\* _prepare_existing_pharmacy_email
PrepareExistingPharmacyEmail(st) ==
  LET pharmacy == Val(st.pharmacy_data)
  IN [subject |-> "Following up on your call - " \o pharmacy.name,
      benefits |-> PharmacyTypeOf(pharmacy.rx_volume)]

\* _handle_send_email preferring the stored address to the email argument
HandleSendEmailStoredFirst(st, kwargs, env) ==
  LET arg == Get(kwargs, "email")
      email == IF TruthyStr(EmailAddress(st)) THEN EmailAddress(st) ELSE arg
  IN IF ~TruthyStr(email)
     THEN Result(FALSE, "No email address available", EmptyDict, <<>>)
     ELSE
       LET mail == IF IsKnownPharmacy(st) THEN PrepareExistingPharmacyEmail(st)
                   ELSE PrepareNewLeadEmail(st)
           call == [fn |-> "send_email", recipient_email |-> Val(email),
                    subject |-> mail.subject, benefits |-> mail.benefits,
                    outcome |-> env.email]
       IN IF env.email = "ok"
          THEN Result(TRUE, "Email sent successfully to " \o Val(email),
                      Put(Put(EmptyDict, "email", Val(email)),
                          "subject", mail.subject),
                      <<call>>)
          ELSE IF env.email = "fail"
          THEN Result(FALSE, "Email sending failed", EmptyDict, <<call>>)
          ELSE Result(FALSE, "Email error: " \o ExcText, EmptyDict, <<call>>)

\* ActionHandler._handle_send_email
HandleSendEmail(st, kwargs, env) ==
  LET arg == Get(kwargs, "email")
      email == IF TruthyStr(arg) THEN arg ELSE EmailAddress(st)
  IN IF ~TruthyStr(email)
     THEN Result(FALSE, "No email address available", EmptyDict, <<>>)
     ELSE
       LET mail == IF IsKnownPharmacy(st) THEN PrepareExistingPharmacyEmail(st)
                   ELSE PrepareNewLeadEmail(st)
           call == [fn |-> "send_email", recipient_email |-> Val(email),
                    subject |-> mail.subject, benefits |-> mail.benefits,
                    outcome |-> env.email]
       IN IF env.email = "ok"
          THEN Result(TRUE, "Email sent successfully to " \o Val(email),
                      Put(Put(EmptyDict, "email", Val(email)),
                          "subject", mail.subject),
                      <<call>>)
          ELSE IF env.email = "fail"
          THEN Result(FALSE, "Email sending failed", EmptyDict, <<call>>)
          ELSE Result(FALSE, "Email error: " \o ExcText, EmptyDict, <<call>>)

\* " | ".join(parts)
RECURSIVE JoinWith(_, _)
JoinWith(parts, sep) ==
  IF Len(parts) = 0 THEN ""
  ELSE IF Len(parts) = 1 THEN parts[1]
  ELSE parts[1] \o sep \o JoinWith(Tail(parts), sep)

\* ActionHandler._generate_callback_notes
GenerateCallbackNotes(st) ==
  LET who ==
        IF IsKnownPharmacy(st)
        THEN LET pharmacy == Val(st.pharmacy_data)
             IN <<"Existing pharmacy: " \o pharmacy.name>> \o
                (IF TruthyInt(pharmacy.rx_volume)
                 THEN <<"Volume: " \o NatStr(Val(pharmacy.rx_volume)) \o "/month">>
                 ELSE <<>>)
        ELSE LET lead == Val(st.lead_data)
             IN <<"New lead: " \o (IF TruthyStr(lead.pharmacy_name)
                                   THEN Val(lead.pharmacy_name) ELSE "TBD")>> \o
                (IF TruthyInt(lead.rx_volume)
                 THEN <<"Estimated volume: " \o NatStr(Val(lead.rx_volume))
                        \o "/month">>
                 ELSE <<>>) \o
                <<"Lead completeness: " \o NatStr(CompletionPercentage(lead)) \o "%">>
  IN JoinWith(who \o
              <<"Conversation length: " \o NatStr(Len(st.messages)) \o " messages",
                "Actions taken: " \o (IF Len(st.actions_taken) > 0
                                      THEN JoinWith(st.actions_taken, ", ")
                                      ELSE "None")>>,
              " | ")

\* ActionHandler._handle_create_follow_up
HandleCreateFollowUp(st, kwargs, env) ==
  LET task_type == GetOr(kwargs, "task_type", Some("general_follow_up"))
      call == [fn |-> "create_follow_up_task",
               pharmacy_name |-> CurrentPharmacyName(st),
               phone |-> st.phone_number, email |-> EmailAddress(st),
               task_type |-> task_type, outcome |-> env.follow_up]
  IN IF env.follow_up = "ok"
     THEN Result(TRUE, "Follow-up task created",
                 Put(EmptyDict, "task_type", task_type), <<call>>)
     ELSE Result(FALSE, "Follow-up task creation failed: " \o ExcText,
                 EmptyDict, <<call>>)

\* ActionHandler._handle_schedule_callback: the result of
\* _handle_create_follow_up is dropped
HandleScheduleCallback(st, kwargs, env) ==
  LET preferred_time == GetOr(kwargs, "preferred_time", Some("during business hours"))
      call == [fn |-> "schedule_callback", phone_number |-> st.phone_number,
               preferred_time |-> preferred_time,
               contact_name |-> CurrentPharmacyName(st),
               notes |-> GenerateCallbackNotes(st), outcome |-> env.callback]
  IN IF env.callback = "ok"
     THEN Result(TRUE, "Callback scheduled for " \o OptStr(preferred_time),
                 Put(EmptyDict, "preferred_time", preferred_time),
                 <<call>> \o
                 HandleCreateFollowUp(
                   st, Put(EmptyDict, "task_type", Some("callback_follow_up")),
                   env).calls)
     ELSE Result(FALSE, "Callback scheduling failed: " \o ExcText, EmptyDict,
                 <<call>>)

\* _handle_log_lead reporting success without calling log_lead_information
HandleLogLeadUncalled(st, kwargs, env) ==
  IF ~IsSome(st.lead_data)
  THEN Result(FALSE, "No lead data to log", EmptyDict, <<>>)
  ELSE Result(TRUE, "Lead information logged successfully",
              Put(EmptyDict, "lead_id", "LEAD"), <<>>)

\* ActionHandler._handle_log_lead
HandleLogLead(st, kwargs, env) ==
  IF ~IsSome(st.lead_data)
  THEN Result(FALSE, "No lead data to log", EmptyDict, <<>>)
  ELSE
    LET lead == Val(st.lead_data)
        call == [fn |-> "log_lead_information",
                 pharmacy_name |-> IF TruthyStr(lead.pharmacy_name)
                                   THEN Val(lead.pharmacy_name) ELSE "Unknown",
                 phone |-> lead.phone, email |-> lead.email,
                 location |-> lead.location, rx_volume |-> lead.rx_volume,
                 contact_person |-> lead.contact_person,
                 completion_percentage |-> CompletionPercentage(lead),
                 outcome |-> env.lead]
    IN IF env.lead = "ok"
       THEN Result(TRUE, "Lead information logged successfully",
                   Put(EmptyDict, "lead_id", "LEAD"), <<call>>)
       ELSE IF env.lead = "fail"
       THEN Result(FALSE, "Lead logging failed", EmptyDict, <<call>>)
       ELSE Result(FALSE, "Lead logging error: " \o ExcText, EmptyDict, <<call>>)

\* ActionHandler._handle_ask_for_email
HandleAskForEmail(st, kwargs, env) ==
  Result(TRUE,
         IF Len(st.messages) > 3
         THEN "To send you our comprehensive service information, I'll need your email address. What's the best email to reach you at?"
         ELSE "I'd be happy to send you detailed information about our services! Could you please provide your email address so I can send you everything "
              \o CurrentPharmacyName(st) \o " needs to know about Pharmesol?",
         Put(EmptyDict, "action_required", "collect_email"), <<>>)

\* ActionHandler._handle_ask_for_callback_details
HandleAskForCallbackDetails(st, kwargs, env) ==
  Result(TRUE,
         "I'd be happy to schedule a callback for you! What time works best - would you prefer morning or afternoon, and which day this week?",
         Put(EmptyDict, "action_required", "collect_callback_details"), <<>>)

\* the keys of action_map in execute_action
ActionTypes ==
  {"send_email", "schedule_callback", "log_lead", "create_follow_up",
   "ask_for_email", "ask_for_callback_details"}

\* action_map[action_type](state, **kwargs)
RunHandler(action_type, st, kwargs, env) ==
  CASE action_type = "send_email" -> HandleSendEmail(st, kwargs, env)
    [] action_type = "schedule_callback" -> HandleScheduleCallback(st, kwargs, env)
    [] action_type = "log_lead" -> HandleLogLead(st, kwargs, env)
    [] action_type = "create_follow_up" -> HandleCreateFollowUp(st, kwargs, env)
    [] action_type = "ask_for_email" -> HandleAskForEmail(st, kwargs, env)
    [] action_type = "ask_for_callback_details" ->
         HandleAskForCallbackDetails(st, kwargs, env)

\* execute_action marking the action whatever the handler reported
ExecuteActionAlwaysMarks(action_type, st, kwargs, env, history) ==
  IF action_type \notin ActionTypes
  THEN [result |-> Result(FALSE, "Unknown action type: " \o action_type,
                          EmptyDict, <<>>),
        st |-> AddAction(st, action_type), history |-> history]
  ELSE
    With(RunHandler(action_type, st, kwargs, env),
         LAMBDA result :
           [result |-> result,
            st |-> AddAction(st, action_type),
            history |-> Append(history, [action |-> action_type,
                                         success |-> result.success,
                                         details |-> result.data])])

\* ActionHandler.execute_action: the result, the state and the handler's
\* action_history after it.  Every handler catches what its collaborator
\* raises, so the except branch of execute_action is never entered from
\* them.  An action_history entry holds no timestamp here.
ExecuteAction(action_type, st, kwargs, env, history) ==
  IF action_type \notin ActionTypes
  THEN [result |-> Result(FALSE, "Unknown action type: " \o action_type,
                          EmptyDict, <<>>),
        st |-> st, history |-> history]
  ELSE
    With(RunHandler(action_type, st, kwargs, env),
         LAMBDA result :
           [result |-> result,
            st |-> IF result.success THEN AddAction(st, action_type) ELSE st,
            history |-> Append(history, [action |-> action_type,
                                         success |-> result.success,
                                         details |-> result.data])])

\* ------------------------------------------------------------------------
\* api/integration.py : PharmacyLookup (PharmacyAPIClient is its alias)
\* ------------------------------------------------------------------------
\* A pharmacy dict of the directory; a key the dict lacks is None.
ApiDict(name, phone, city, state, rxVolume, email) ==
  [shape |-> "dict", name |-> name, phone |-> phone, city |-> city,
   state |-> state, rxVolume |-> rxVolume, email |-> email,
   contactPerson |-> None]
\* a list item that is no dict (item.get raises AttributeError)
NotADict == [shape |-> "other"]

\* PharmacyLookup.lookup_pharmacy_by_phone.  `api` is what the GET does:
\* kind "json" carries the decoded list in `body`; every other kind is a
\* failure raised inside the try block (transport error, timeout, HTTP
\* error status, undecodable body, a body that is no list).
\* The loop returns at the first item whose phone matches and aborts, to
\* the except branch, at the first item that is no dict.
RECURSIVE ScanPharmacies(_, _)
ScanPharmacies(pharmacies, phone_number) ==
  IF Len(pharmacies) = 0 THEN None
  ELSE IF Head(pharmacies).shape # "dict" THEN None
  ELSE IF Head(pharmacies).phone = Some(phone_number) THEN Some(Head(pharmacies))
  ELSE ScanPharmacies(Tail(pharmacies), phone_number)

\* a lookup that returns the first record of the list without comparing
\* its phone
LookupFirstRecord(phone_number, api) ==
  IF phone_number = "" THEN None
  ELSE IF api.kind # "json" THEN None
  ELSE IF Len(api.body) = 0 \/ Head(api.body).shape # "dict" THEN None
  ELSE Some(Head(api.body))

LookupPharmacyByPhone(phone_number, api) ==
  IF phone_number = "" THEN None
  ELSE IF api.kind # "json" THEN None
  ELSE ScanPharmacies(api.body, phone_number)

\* ------------------------------------------------------------------------
\* chatbot.py : PharmacySalesChatbot
\* ------------------------------------------------------------------------
\* _generate_greeting
GenerateGreeting(pharmacy_data) ==
  IF IsSome(pharmacy_data)
  THEN LET p == Val(pharmacy_data)
           location_info == IF TruthyStr(p.city) THEN " in " \o LocationDisplay(p)
                            ELSE ""
           volume_info ==
             IF ~TruthyInt(p.rx_volume) THEN ""
             ELSE IF Val(p.rx_volume) >= 10000
             THEN " With your high prescription volume, you'd be an excellent fit for our premium tier services."
             ELSE IF Val(p.rx_volume) >= 5000
             THEN " Your prescription volume puts you in a great position to benefit from our bulk pricing."
             ELSE " We can offer competitive pricing and room to grow with our flexible service options."
       IN "Great! I see you're calling from " \o p.name \o location_info \o "."
          \o volume_info \o " How can Pharmesol help you today?"
  ELSE "Thank you for calling Pharmesol! I don't have your information in our system yet."

\* the pharmacy_data start_conversation ends up with: the converted record
\* when the lookup returns one, None when it returns None or when the
\* lookup or the conversion raises (both except branches)
LookedUpPharmacy(phone_number, api) ==
  LET raw_pharmacy_data == LookupPharmacyByPhone(phone_number, api)
  IN IF IsSome(raw_pharmacy_data)
     THEN Some(FromApiResponse(Val(raw_pharmacy_data)))
     ELSE None

\* PharmacySalesChatbot.start_conversation: the new conversation state
ChatbotStartConversation(phone_number, api) ==
  LET pharmacy_data == LookedUpPharmacy(phone_number, api)
      st == ManagerStartConversation(phone_number, pharmacy_data)
  IN AddMessage(st, "assistant", GenerateGreeting(pharmacy_data))

FallbackAskEmail ==
  "I'd be happy to help you with information about Pharmesol's services. Could you please provide your email address so I can send you detailed information?"
FallbackSpecialist ==
  "Thank you for your interest in Pharmesol. Let me connect you with one of our specialists who can provide detailed information about our services. Would you prefer a callback or email follow-up?"
EmailApology ==
  "I apologize, but I'm having trouble sending the email right now. Could you please provide your email address again?"

\* _generate_fallback_response with its two texts exchanged
FallbackExchanged(st) ==
  IF ~HasEmail(st) THEN FallbackSpecialist ELSE FallbackAskEmail

\* _generate_fallback_response
GenerateFallbackResponse(st) ==
  IF ~HasEmail(st) THEN FallbackAskEmail ELSE FallbackSpecialist

\* _generate_llm_response: the reply of the LLM, or the fallback when the
\* call (or reading its result) raises.  The call is given the last six
\* messages of the conversation.
GenerateLlmResponse(strategy, st, env) ==
  LET call == [fn |-> "llm", response_type |-> strategy.response_type,
               recent |-> IF Len(st.messages) > 6 THEN 6 ELSE Len(st.messages),
               outcome |-> env.llm]
  IN [response |-> IF env.llm = "ok" THEN LlmText ELSE GenerateFallbackResponse(st),
      calls |-> <<call>>]

\* _handle_message_with_strategy logging the lead whether or not the email
\* was sent
HandleMessageLogsLeadAlways(analysis, strategy, st, env, history) ==
  LET Plain(r) == [response |-> r.result.message, st |-> r.st,
                   history |-> r.history, calls |-> r.result.calls]
  IN IF strategy.response_type = "ask_for_email"
     THEN Plain(ExecuteAction("ask_for_email", st, EmptyDict, env, history))
     ELSE IF strategy.response_type = "send_email"
     THEN With(ExecuteAction("send_email", st,
                             Put(EmptyDict, "email",
                                 Get(analysis.entities, "email")),
                             env, history),
               LAMBDA r :
                 With(ExecuteAction("log_lead", r.st, EmptyDict, env, r.history),
                      LAMBDA l :
                        [response |-> IF r.result.success THEN r.result.message
                                      ELSE EmailApology,
                         st |-> l.st, history |-> l.history,
                         calls |-> r.result.calls \o l.result.calls]))
     ELSE IF strategy.response_type = "schedule_callback"
     THEN Plain(ExecuteAction("schedule_callback", st,
                              Put(EmptyDict, "preferred_time",
                                  Get(analysis.entities, "preferred_time")),
                              env, history))
     ELSE With(GenerateLlmResponse(strategy, st, env),
               LAMBDA g :
                 [response |-> g.response, st |-> st, history |-> history,
                  calls |-> g.calls])

\* _handle_message_with_strategy: the response, the state, the handler's
\* action_history and the collaborator calls made
HandleMessageWithStrategy(analysis, strategy, st, env, history) ==
  LET entities == analysis.entities
      response_type == strategy.response_type
  IN IF response_type = "ask_for_email"
     THEN With(ExecuteAction("ask_for_email", st, EmptyDict, env, history),
               LAMBDA r :
                 [response |-> r.result.message, st |-> r.st,
                  history |-> r.history, calls |-> r.result.calls])
     ELSE IF response_type = "send_email"
     THEN With(ExecuteAction("send_email", st,
                             Put(EmptyDict, "email", Get(entities, "email")),
                             env, history),
               LAMBDA r :
                 IF r.result.success
                 THEN IF ~IsKnownPharmacy(r.st)
                      THEN With(ExecuteAction("log_lead", r.st, EmptyDict, env,
                                              r.history),
                                LAMBDA l :
                                  [response |-> r.result.message, st |-> l.st,
                                   history |-> l.history,
                                   calls |-> r.result.calls \o l.result.calls])
                      ELSE [response |-> r.result.message, st |-> r.st,
                            history |-> r.history, calls |-> r.result.calls]
                 ELSE [response |-> EmailApology, st |-> r.st,
                       history |-> r.history, calls |-> r.result.calls])
     ELSE IF response_type = "schedule_callback"
     THEN With(ExecuteAction("schedule_callback", st,
                             Put(EmptyDict, "preferred_time",
                                 Get(entities, "preferred_time")),
                             env, history),
               LAMBDA r :
                 [response |-> r.result.message, st |-> r.st,
                  history |-> r.history, calls |-> r.result.calls])
     ELSE With(GenerateLlmResponse(strategy, st, env),
               LAMBDA g :
                 [response |-> g.response, st |-> st, history |-> history,
                  calls |-> g.calls])

\* process_message on a started conversation, up to the strategy: the user
\* message is recorded, analysed, merged into the lead data
AnalyzeTurn(user_message, st, first) ==
  With(AddMessage(st, "user", user_message),
       LAMBDA st1 :
         With(AnalyzeUserMessage(user_message, st1, first),
              LAMBDA analysis :
                With(IF NonEmptyDict(analysis.entities) /\ IsSome(st1.lead_data)
                     THEN UpdateLeadData(st1, analysis.entities) ELSE st1,
                     LAMBDA st2 :
                       [analysis |-> analysis, st |-> st2,
                        strategy |-> DetermineResponseStrategy(analysis, st2)])))

\* the dispatch that returns the response without recording it
DispatchWithoutRecord(a, env, history) ==
  With(HandleMessageWithStrategy(a.analysis, a.strategy, a.st, env, history),
       LAMBDA h :
         [response |-> h.response, st |-> h.st,
          history |-> h.history, calls |-> h.calls])

\* process_message from the strategy on: the dispatch, then the response is
\* recorded as the assistant's message
DispatchTurn(a, env, history) ==
  With(HandleMessageWithStrategy(a.analysis, a.strategy, a.st, env, history),
       LAMBDA h :
         [response |-> h.response,
          st |-> AddMessage(h.st, "assistant", h.response),
          history |-> h.history, calls |-> h.calls])

\* get_conversation_summary on a started conversation.  The conversation
\* id, the start time and the success rate, action types and recent actions
\* of get_action_summary are left out.
GetConversationSummary(st, history) ==
  [phone_number |-> st.phone_number,
   status |-> st.status,
   message_count |-> Len(st.messages),
   actions_taken |-> st.actions_taken,
   is_known_pharmacy |-> IsKnownPharmacy(st),
   has_email |-> HasEmail(st),
   pharmacy_data |->
     IF IsSome(st.pharmacy_data)
     THEN Some([name |-> Val(st.pharmacy_data).name,
                location |-> LocationDisplay(Val(st.pharmacy_data)),
                type |-> PharmacyTypeOf(Val(st.pharmacy_data).rx_volume),
                volume |-> Val(st.pharmacy_data).rx_volume])
     ELSE None,
   lead_data |->
     IF IsSome(st.lead_data)
     THEN Some([pharmacy_name |-> Val(st.lead_data).pharmacy_name,
                completion_percentage |->
                  CompletionPercentage(Val(st.lead_data)),
                has_email |-> TruthyStr(Val(st.lead_data).email),
                estimated_volume |-> Val(st.lead_data).rx_volume])
     ELSE None,
   total_actions |-> Len(history),
   successful_actions |->
     Cardinality({k \in 1..Len(history) : history[k].success})]

\* end_conversation on a started conversation
ClosingText(st) ==
  "Thank you for your time today. I look forward to supporting "
  \o CurrentPharmacyName(st)
  \o "'s continued success with Pharmesol's reliable distribution services."

\* ------------------------------------------------------------------------
\* api/llm.py : PharmacyChatbot, the LLM-backed variant.  Its attributes are
\* the fields of one record: phone_number is None until start_conversation
\* sets the attribute; pharmacy_data is the dict the caller passed (None or a
\* directory dict); lead_data is a dict; conversation_history the list of
\* role/content entries.
\* ------------------------------------------------------------------------
\* PharmacyChatbot.__init__
NewPharmacyChatbot ==
  [phone_number |-> None, pharmacy_data |-> None, lead_data |-> EmptyDict,
   conversation_history |-> <<>>]

\* bool(pharmacy_data) of an Optional[Dict]: an empty dict is false
TruthyDict(d) ==
  IsSome(d) /\ \E k \in {"name", "phone", "city", "state", "rxVolume", "email",
                         "contactPerson"} : IsSome(Val(d)[k])

UNKNOWN_PHARMACY_TEMPLATE ==
  "Thank you for calling Pharmesol! I don't have your information in our system yet. \n\n    Could you please tell me:\n    1. Your pharmacy name\n    2. Your location\n    3. Approximately how many prescriptions you fill per month\n\n    This will help me understand how we can best support your pharmacy's needs."

\* utils/prompt.py format_location_info
FormatLocationInfo(pharmacy_data) ==
  LET parts == (IF TruthyStr(pharmacy_data.city)
                THEN <<Val(pharmacy_data.city)>> ELSE <<>>)
               \o (IF TruthyStr(pharmacy_data.state)
                   THEN <<Val(pharmacy_data.state)>> ELSE <<>>)
  IN IF Len(parts) > 0 THEN " in " \o JoinWith(parts, ", ") ELSE ""

\* utils/prompt.py format_rx_volume_info with RX_VOLUME_MESSAGES
FormatRxVolumeInfo(pharmacy_data) ==
  IF ~TruthyInt(pharmacy_data.rxVolume)
  THEN "I'd love to learn more about your prescription volume to see how we can best support you."
  ELSE IF Val(pharmacy_data.rxVolume) >= 10000
  THEN "With your high prescription volume, you'd be an excellent fit for our premium tier services, including dedicated account management and priority inventory allocation."
  ELSE IF Val(pharmacy_data.rxVolume) >= 5000
  THEN "Your prescription volume puts you in a great position to benefit from our bulk pricing and reliable delivery schedules."
  ELSE IF Val(pharmacy_data.rxVolume) >= 1000
  THEN "Even with your current volume, we can offer competitive pricing and room to grow with our flexible service options."
  ELSE "Understanding your prescription volume helps us tailor our services to your specific needs."

\* pharmacy_data.get('name', 'your pharmacy')
DictName(pharmacy_data) ==
  IF IsSome(pharmacy_data.name) THEN Val(pharmacy_data.name) ELSE "your pharmacy"

\* PharmacyChatbot._create_known_pharmacy_greeting (KNOWN_PHARMACY_TEMPLATE)
CreateKnownPharmacyGreeting(pharmacy_data) ==
  "Great! I see you're calling from " \o DictName(pharmacy_data)
  \o FormatLocationInfo(pharmacy_data) \o ". "
  \o FormatRxVolumeInfo(pharmacy_data)
  \o "\n\n    How can Pharmesol help you today? We specialize in supporting pharmacies like yours with reliable supply chain solutions and competitive pricing."

\* PharmacyChatbot.start_conversation: lead_data is not assigned
LlmStart(bot, phone_number, pharmacy_data) ==
  [bot EXCEPT
     !.phone_number = Some(phone_number),
     !.pharmacy_data = pharmacy_data,
     !.conversation_history =
       <<[role |-> "assistant",
          content |-> IF TruthyDict(pharmacy_data)
                      THEN CreateKnownPharmacyGreeting(Val(pharmacy_data))
                      ELSE UNKNOWN_PHARMACY_TEMPLATE]>>]

\* conversation_history.append({"role": role, "content": content})
LlmAppend(bot, role, content) ==
  [bot EXCEPT !.conversation_history =
     Append(@, [role |-> role, content |-> content])]

\* the callback keywords tested before the email keywords
DetermineIntentCallbackFirst(message) ==
  With(LowerStr(message),
       LAMBDA message_lower :
         IF AnyIn(message_lower,
                  {"callback", "call back", "call me", "schedule"})
         THEN "callback_request"
         ELSE IF AnyIn(message_lower, {"email", "send me", "mail me"})
         THEN "email_request"
         ELSE "general_inquiry")

\* PharmacyChatbot._determine_intent_fallback
DetermineIntentFallback(message) ==
  With(LowerStr(message),
       LAMBDA message_lower :
         IF AnyIn(message_lower, {"email", "send me", "mail me"})
         THEN "email_request"
         ELSE IF AnyIn(message_lower,
                       {"callback", "call back", "call me", "schedule"})
         THEN "callback_request"
         ELSE "general_inquiry")

\* any(c.isdigit() for c in message)
HasDigit(message) == \E i \in 1..Len(message) : Ch(message, i) \in Digits

\* PharmacyChatbot._fallback_extraction
FallbackExtraction(message) ==
  [intent |-> Some(DetermineIntentFallback(message)),
   has_contact_info |-> Contains(message, "@") \/ HasDigit(message),
   contact_info |-> EmptyDict,
   pharmacy_info |-> EmptyDict,
   scheduling_preference |-> ""]

\* PharmacyChatbot._extract_message_information.  `x` is what the LLM call
\* does: kind "raise" (the call raises), "bad_json" (json.loads raises
\* JSONDecodeError), "json" (the reply decodes to the object x.info).  The
\* keys specific_requests and those the code never reads are left out.
ExtractMessageInformation(message, x) ==
  IF x.kind = "json" THEN Val(x.info) ELSE FallbackExtraction(message)

\* PharmacyChatbot._update_lead_information: each value of the extraction
\* that is truthy is copied under its lead_data key
UpdateLeadInformation(bot, info) ==
  LET pairs == <<<<"email", Get(info.contact_info, "email")>>,
                 <<"phone", Get(info.contact_info, "phone")>>,
                 <<"contact_name", Get(info.contact_info, "name")>>,
                 <<"pharmacy_name", Get(info.pharmacy_info, "name")>>,
                 <<"location", Get(info.pharmacy_info, "location")>>,
                 <<"rx_volume", Get(info.pharmacy_info, "rx_volume")>>>>
      keep == {k \in 1..5 : TruthyStr(pairs[k][2])}
              \cup {k \in {6} : TruthyInt(pairs[k][2])}
  IN [bot EXCEPT !.lead_data =
        [key \in (DOMAIN @) \cup {pairs[k][1] : k \in keep} |->
           IF \E k \in keep : pairs[k][1] = key
           THEN pairs[CHOOSE k \in keep : pairs[k][1] = key][2]
           ELSE @[key]]]

\* message.split(): the maximal runs of non-whitespace characters
RECURSIVE SplitWords(_, _)
SplitWords(s, pos) ==
  IF pos > Len(s) THEN <<>>
  ELSE IF Ch(s, pos) \in Spaces THEN SplitWords(s, pos + 1)
  ELSE LET n == MinOf({k \in 1..(Len(s) - pos + 1) :
                         pos + k > Len(s) \/ Ch(s, pos + k) \in Spaces})
       IN <<SubSeq(s, pos, pos + n - 1)>> \o SplitWords(s, pos + n)

\* the first word of the message holding both '@' and '.', else None
FirstAddressWord(message) ==
  LET words == SplitWords(message, 1)
      hits == {k \in 1..Len(words) :
                 Contains(words[k], "@") /\ Contains(words[k], ".")}
  IN IF hits = {} THEN None ELSE Some(words[MinOf(hits)])

\* what a call of process_user_message gives: the text returned or the
\* exception raised, the chatbot after it and the collaborator calls made
LlmOutcome(response, raised, bot, calls) ==
  [response |-> response, raised |-> raised, bot |-> bot, calls |-> calls]

LlmAskEmail ==
  "I'd be happy to send you information! Could you please provide your email address?"

\* the address _handle_email_request mails: the extraction's, else the
\* first word of the message with '@' and '.', else the stored one
ResolveEmail(bot, message, info) ==
  IF TruthyStr(Get(info.contact_info, "email"))
  THEN Get(info.contact_info, "email")
  ELSE With(FirstAddressWord(message),
            LAMBDA word :
              IF TruthyStr(word) THEN word
              ELSE IF TruthyStr(Get(bot.lead_data, "email"))
              THEN Get(bot.lead_data, "email")
              ELSE None)

\* PharmacyChatbot._handle_email_request from the resolved address on.  The
\* results of send_email and log_lead_information are not looked at; what
\* either raises leaves the method.
SendLlmEmail(bot, email, env) ==
  IF ~IsSome(email)
  THEN LlmOutcome(Some(LlmAskEmail), None, bot, <<>>)
  ELSE
    LET known == TruthyDict(bot.pharmacy_data)
        pharmacy_name ==
          IF known THEN DictName(Val(bot.pharmacy_data))
          ELSE OptStr(GetOr(bot.lead_data, "pharmacy_name", Some("your pharmacy")))
        subject ==
          (IF known THEN "Following up on your call - "
           ELSE "Thank you for your interest in Pharmesol - ") \o pharmacy_name
        mail == [fn |-> "send_email", recipient_email |-> Val(email),
                 subject |-> subject, outcome |-> env.email]
        logged == Put(bot.lead_data, "email", email)
        log == [fn |-> "log_lead_information", lead_data |-> logged,
                outcome |-> env.lead]
        text == "Perfect! I've sent detailed information about Pharmesol's services to "
                \o Val(email)
                \o ". You should receive it within the next few minutes."
    IN IF env.email = "raise"
       THEN LlmOutcome(None, Some("ConnectionError"), bot, <<mail>>)
       ELSE IF known
       THEN LlmOutcome(Some(text), None, bot, <<mail>>)
       ELSE IF env.lead = "raise"
       THEN LlmOutcome(None, Some("ConnectionError"),
                       [bot EXCEPT !.lead_data = logged], <<mail, log>>)
       ELSE LlmOutcome(Some(text), None,
                       [bot EXCEPT !.lead_data = logged], <<mail, log>>)

\* PharmacyChatbot._handle_email_request
HandleEmailRequest(bot, message, info, env) ==
  SendLlmEmail(bot, ResolveEmail(bot, message, info), env)

\* the preferred time of _handle_callback_request
LlmPreferredTime(message, info) ==
  IF info.scheduling_preference # "" THEN info.scheduling_preference
  ELSE With(LowerStr(message),
            LAMBDA message_lower :
              IF Contains(message_lower, "tomorrow")
              THEN "tomorrow during business hours"
              ELSE IF Contains(message_lower, "afternoon") THEN "this afternoon"
              ELSE IF Contains(message_lower, "morning") THEN "tomorrow morning"
              ELSE "during business hours")

\* the contact name of _handle_callback_request
LlmContactName(bot) ==
  IF TruthyDict(bot.pharmacy_data) THEN DictName(Val(bot.pharmacy_data))
  ELSE IF TruthyStr(Get(bot.lead_data, "pharmacy_name"))
  THEN Val(bot.lead_data["pharmacy_name"])
  ELSE "there"

\* the follow-up creator called although the scheduler raised
ScheduleThenAlwaysFollowUp(bot, preferred_time, env) ==
  LET follow == [fn |-> "create_follow_up_task",
                 pharmacy_name |-> LlmContactName(bot),
                 phone |-> OptStr(bot.phone_number),
                 email |-> None,
                 task_type |-> Some("callback_follow_up"),
                 outcome |-> env.follow_up]
      schedule == [fn |-> "schedule_callback",
                   phone_number |-> OptStr(bot.phone_number),
                   preferred_time |-> Some(preferred_time),
                   contact_name |-> LlmContactName(bot),
                   notes |-> "",
                   outcome |-> env.callback]
  IN LlmOutcome(IF env.callback = "raise" THEN None ELSE Some("Excellent!"),
                IF env.callback = "raise" THEN Some("ConnectionError") ELSE None,
                bot, <<schedule, follow>>)

\* PharmacyChatbot._handle_callback_request from the preferred time on.
\* Reading self.phone_number raises AttributeError on a chatbot that was
\* never started, before the scheduler is called; what the scheduler or the
\* follow-up creator raises leaves the method.
ScheduleLlmCallback(bot, preferred_time, env) ==
  IF ~IsSome(bot.phone_number)
  THEN LlmOutcome(None, Some("AttributeError"), bot, <<>>)
  ELSE
    LET contact_name == LlmContactName(bot)
        schedule == [fn |-> "schedule_callback",
                     phone_number |-> Val(bot.phone_number),
                     preferred_time |-> Some(preferred_time),
                     contact_name |-> contact_name,
                     notes |-> "Interested in Pharmesol services. Conversation context: "
                               \o NatStr(Len(bot.conversation_history))
                               \o " messages exchanged.",
                     outcome |-> env.callback]
        follow == [fn |-> "create_follow_up_task",
                   pharmacy_name |-> contact_name,
                   phone |-> Val(bot.phone_number),
                   email |-> IF TruthyStr(Get(bot.lead_data, "email"))
                             THEN bot.lead_data["email"] ELSE None,
                   task_type |-> Some("callback_follow_up"),
                   outcome |-> env.follow_up]
    IN IF env.callback = "raise"
       THEN LlmOutcome(None, Some("ConnectionError"), bot, <<schedule>>)
       ELSE IF env.follow_up = "raise"
       THEN LlmOutcome(None, Some("ConnectionError"), bot, <<schedule, follow>>)
       ELSE LlmOutcome(
              Some("Excellent! I've scheduled a callback for you "
                   \o preferred_time \o " at " \o Val(bot.phone_number)
                   \o ". One of our senior sales representatives will call you to discuss how we can support your pharmacy's needs."),
              None, bot, <<schedule, follow>>)

\* PharmacyChatbot._handle_callback_request
HandleCallbackRequest(bot, message, info, env) ==
  ScheduleLlmCallback(bot, LlmPreferredTime(message, info), env)

LlmApology ==
  "I apologize, but I'm experiencing some technical difficulties. Let me take down your information manually and have someone from our team reach out to you."

\* PharmacyChatbot._generate_llm_response: _prepare_system_message reads
\* self.phone_number inside the try block, so on a chatbot that was never
\* started the LLM is not called and the apology is returned
GenerateLlmReply(bot, env) ==
  IF ~IsSome(bot.phone_number)
  THEN [response |-> LlmApology, calls |-> <<>>]
  ELSE [response |-> IF env.llm = "ok" THEN LlmText ELSE LlmApology,
        calls |-> <<[fn |-> "llm", history |-> Len(bot.conversation_history),
                     outcome |-> env.llm]>>]

\* the record of the extraction call made on the LLM client
ExtractCall(x) == [fn |-> "llm_extract", outcome |-> x.kind]

\* PharmacyChatbot.process_user_message.  `x` is what the extraction call
\* on the LLM does; kind "not_a_dict" is a reply that decodes to JSON that
\* is no object, on which extracted_info.get raises AttributeError.  The
\* two action handlers return from the method directly.
ProcessUserMessage(bot, user_message, x, env) ==
  With(LlmAppend(bot, "user", user_message),
       LAMBDA b1 :
         IF x.kind = "not_a_dict"
         THEN [out |-> LlmOutcome(None, Some("AttributeError"), b1,
                                  <<ExtractCall(x)>>),
               info |-> None]
         ELSE
           With(ExtractMessageInformation(user_message, x),
                LAMBDA extracted_info :
                  [info |-> Some(extracted_info),
                   out |->
                     With(IF extracted_info.intent = Some("email_request")
                          THEN HandleEmailRequest(b1, user_message,
                                                  extracted_info, env)
                          ELSE IF extracted_info.intent = Some("callback_request")
                          THEN HandleCallbackRequest(b1, user_message,
                                                     extracted_info, env)
                          ELSE
                            With(IF extracted_info.has_contact_info
                                 THEN UpdateLeadInformation(b1, extracted_info)
                                 ELSE b1,
                                 LAMBDA b2 :
                                   With(GenerateLlmReply(b2, env),
                                        LAMBDA g :
                                          LlmOutcome(Some(g.response), None,
                                                     LlmAppend(b2, "assistant",
                                                               g.response),
                                                     g.calls))),
                          LAMBDA o :
                            [o EXCEPT !.calls = <<ExtractCall(x)>> \o @])]))

\* CONVERSATION_PROMPTS['closing'] with the name end_conversation picks
LlmClosing(bot) ==
  "Thank you for your time today. I look forward to supporting "
  \o (IF TruthyDict(bot.pharmacy_data) THEN DictName(Val(bot.pharmacy_data))
      ELSE OptStr(GetOr(bot.lead_data, "pharmacy_name", Some("your pharmacy"))))
  \o "'s continued success."

\* ------------------------------------------------------------------------
\* Inputs explored
\* ------------------------------------------------------------------------
Phones == {"+15551234567", "+15559998888"}

Central == ApiDict(Some("Central Pharmacy"), Some("+15551234567"),
                   Some("Springfield"), Some("IL"), Some(15000), None)
Corner == ApiDict(Some("Corner Drugstore"), Some("+15551234567"),
                  None, None, Some(8000), Some("rx@corner.com"))
Lakeside == ApiDict(Some("Lakeside Rx"), Some("+15559998888"),
                    Some("Reno"), None, None, None)
NoPhone == ApiDict(Some("Central Pharmacy"), None,
                   Some("Springfield"), Some("IL"), Some(15000), None)

ApiResponses ==
  {[kind |-> "transport_error", body |-> <<>>],
   [kind |-> "timeout", body |-> <<>>],
   [kind |-> "http_error", body |-> <<>>],
   [kind |-> "bad_json", body |-> <<>>],
   [kind |-> "not_a_list", body |-> <<>>],
   [kind |-> "json", body |-> <<>>],
   [kind |-> "json", body |-> <<NoPhone>>],
   [kind |-> "json", body |-> <<NotADict, Central>>],
   [kind |-> "json", body |-> <<Central>>],
   [kind |-> "json", body |-> <<Corner>>],
   [kind |-> "json", body |-> <<Lakeside, Central>>]}

UserMessages ==
  {"",
   "hello",
   "ok thanks",
   "send me details",
   "email me at ann@sun.co",
   "my address is ann@sun.co",
   "email ann@sun.co or bob@sun.io",
   "please call me",
   "call me back tomorrow afternoon",
   "email or callback",
   "we are Sun Pharmacy in Reno, NV",
   "what is the price for volume 8,000",
   "email ops@medcare.com, calling from MedCare Pharmacy, 8000 prescriptions",
   "calling from Sun Pharmacy in Reno, NV"}

\* the outcomes that matter in a turn of the given response type; the
\* collaborators the turn does not call are fixed to "ok"
OutcomesFor(response_type) ==
  {env \in Outcomes :
     /\ response_type # "send_email" => env.email = "ok" /\ env.lead = "ok"
     /\ response_type # "schedule_callback" =>
          env.callback = "ok" /\ env.follow_up = "ok"
     /\ response_type \in {"send_email", "schedule_callback", "ask_for_email"} =>
          env.llm = "ok"}

\* the outcomes that matter in a direct execute_action call: those of the
\* collaborators the action's handler calls
OutcomesOf(action_type) ==
  {env \in Outcomes :
     /\ action_type # "send_email" => env.email = "ok"
     /\ action_type # "schedule_callback" => env.callback = "ok"
     /\ action_type \notin {"schedule_callback", "create_follow_up"} =>
          env.follow_up = "ok"
     /\ action_type # "log_lead" => env.lead = "ok"
     /\ env.llm = "ok"}

\* an action type that is no key of action_map
UnknownAction == "refund_order"

\* the keyword arguments a direct execute_action call passes
KwargsFor(action_type) ==
  IF action_type = "send_email"
  THEN {EmptyDict, Put(EmptyDict, "email", Some("ann@sun.co"))}
  ELSE IF action_type = "schedule_callback"
  THEN {EmptyDict, Put(EmptyDict, "preferred_time", None),
        Put(EmptyDict, "preferred_time", Some("tomorrow"))}
  ELSE {EmptyDict}

\* the directory responses of the sessions the direct calls are made on
HandlerApis ==
  {[kind |-> "timeout", body |-> <<>>],
   [kind |-> "json", body |-> <<Central>>],
   [kind |-> "json", body |-> <<Corner>>]}

\* the entities a direct update_lead_data call passes
LeadEntities ==
  {EmptyDict,
   Put(EmptyDict, "email", Some("ann@sun.co")),
   Put(EmptyDict, "email", Some("bob@sun.io")),
   Put(EmptyDict, "email", None),
   Put(EmptyDict, "pharmacy_name", Some("Sun Pharmacy")),
   Put(EmptyDict, "pharmacy_name", Some("")),
   Put(EmptyDict, "location", Some("Reno, NV")),
   Put(EmptyDict, "rx_volume", Some(8000)),
   Put(EmptyDict, "rx_volume", Some(0)),
   Put(EmptyDict, "contact_person", Some("Ann")),
   Put(EmptyDict, "preferred_time", None),
   Put(Put(Put(EmptyDict, "email", Some("bob@sun.io")),
           "pharmacy_name", Some("Sun Pharmacy")),
       "rx_volume", Some(500))}

\* the arguments a host passes to PharmacyChatbot.start_conversation: a
\* number with the directory record found for it, None when none was found
LlmCallers ==
  {[phone_number |-> "+15551234567", pharmacy_data |-> None],
   [phone_number |-> "+15551234567", pharmacy_data |-> Some(Central)],
   [phone_number |-> "+15559998888", pharmacy_data |-> Some(Lakeside)]}

\* the messages a host passes to PharmacyChatbot.process_user_message
LlmMessages ==
  {"Hello",
   "please email me",
   "send me details at ann@sun.co",
   "call me back tomorrow morning",
   "email me or call me back",
   "my number is 555"}

\* an object the extraction reply decodes to
Extraction(intent, has_contact_info, contact_info, pharmacy_info, scheduling_preference) ==
  [intent |-> intent, has_contact_info |-> has_contact_info,
   contact_info |-> contact_info, pharmacy_info |-> pharmacy_info,
   scheduling_preference |-> scheduling_preference]

\* the objects the extraction replies explored decode to
EmailReply ==
  Extraction(Some("email_request"), TRUE,
             Put(EmptyDict, "email", Some("bob@sun.io")), EmptyDict, "")
CallbackReply ==
  Extraction(Some("callback_request"), FALSE, EmptyDict, EmptyDict,
             "Friday at 3pm")
IntroductionReply ==
  Extraction(Some("general_inquiry"), TRUE,
             Put(EmptyDict, "email", Some("bob@sun.io")),
             Put(Put(EmptyDict, "name", Some("Sun Pharmacy")),
                 "rx_volume", Some(500)),
             "")

\* what the extraction call on the LLM does for a message: it raises, it
\* replies with text that is no JSON, with JSON that is no object, or with
\* one of the objects above
LlmExtractions(message) ==
  {[kind |-> "raise", info |-> None], [kind |-> "bad_json", info |-> None]}
  \cup {[kind |-> "not_a_dict", info |-> None] : m \in {message} \cap {"Hello"}}
  \cup {[kind |-> "json", info |-> Some(EmailReply)] :
          m \in {message} \cap {"please email me", "Hello"}}
  \cup {[kind |-> "json", info |-> Some(CallbackReply)] :
          m \in {message} \cap {"call me back tomorrow morning",
                                "my number is 555"}}
  \cup {[kind |-> "json", info |-> Some(IntroductionReply)] :
          m \in {message} \cap {"my number is 555", "please email me"}}

\* the outcomes that matter in a process_user_message call: those of the
\* collaborators the branch taken calls.  What send_email and
\* log_lead_information return is not looked at, so they return or raise.
OutcomesForLlm(intent) ==
  {env \in Outcomes :
     /\ env.email # "fail" /\ env.lead # "fail"
     /\ intent # Some("email_request") => env.email = "ok" /\ env.lead = "ok"
     /\ intent # Some("callback_request") =>
          env.callback = "ok" /\ env.follow_up = "ok"
     /\ intent \in {Some("email_request"), Some("callback_request")} =>
          env.llm = "ok"}

\* ------------------------------------------------------------------------
\* State
\* ------------------------------------------------------------------------
VARIABLES
  conversation_state,  \* PharmacySalesChatbot.conversation_state (also
                       \* ConversationFlowManager.state): None until the
                       \* first start_conversation
  action_history,      \* ActionHandler.action_history
  turn,                \* the last call made by the host and what it did
  turns,               \* calls made after construction, start_conversation
                       \* excepted
  starts               \* start_conversation calls made

vars == <<conversation_state, action_history, turn, turns, starts>>

\* hasattr(self, 'conversation_state')
Started == IsSome(conversation_state)
\* self.conversation_state
Session == Val(conversation_state)

\* the record of a call: its input, the exception it raised (None when it
\* returned), the text it returned, and for process_message the analysis,
\* the strategy and the collaborator calls
Turn(op, input, raised, response, analysis, strategy, calls) ==
  [op |-> op, input |-> input, raised |-> raised, response |-> response,
   analysis |-> analysis, strategy |-> strategy, calls |-> calls,
   result |-> None]

\* the record of a direct execute_action call, with its ActionResult
HandlerTurn(input, result) ==
  [op |-> "execute_action", input |-> Some(input), raised |-> None,
   response |-> Some(result.message), analysis |-> None, strategy |-> None,
   calls |-> result.calls, result |-> Some(result)]

\* the record of a start_conversation call that made the state st
StartTurn(phone_number, api, st) ==
  Turn("start_conversation",
       Some([phone_number |-> phone_number, api |-> api]),
       None, Some(st.messages[1].content), None, None, <<>>)

\* process_message answering, instead of raising, before any
\* start_conversation
UnstartedTurnAnswers(user_message) ==
  Turn("process_message", Some(user_message), None, Some(FallbackAskEmail),
       None, None, <<>>)

\* process_message when the chatbot has no conversation_state attribute
UnstartedTurn(user_message) ==
  Turn("process_message", Some(user_message), Some("RuntimeError"), None,
       None, None, <<>>)

Init ==
  /\ conversation_state = None
  /\ action_history = <<>>
  /\ turn = Turn("none", None, None, None, None, None, <<>>)
  /\ turns = 0
  /\ starts = 0

\* PharmacySalesChatbot.start_conversation(phone_number)
StartConversation ==
  /\ starts < MaxStarts
  /\ \E phone_number \in Phones, api \in ApiResponses :
       \E st \in {ChatbotStartConversation(phone_number, api)} :
         /\ conversation_state' = Some(st)
         /\ turn' = StartTurn(phone_number, api, st)
  /\ starts' = starts + 1
  /\ UNCHANGED <<action_history, turns>>

\* PharmacySalesChatbot.process_message(user_message)
ProcessMessage ==
  /\ turns < MaxTurns
  /\ turns' = turns + 1
  /\ UNCHANGED starts
  /\ \E user_message \in UserMessages :
       IF ~Started
       THEN /\ turn' = UnstartedTurn(user_message)
            /\ UNCHANGED <<conversation_state, action_history>>
       ELSE \E first \in FirstEmailChoices(user_message) :
              \E a \in {AnalyzeTurn(user_message, Session, first)} :
                \E env \in OutcomesFor(a.strategy.response_type) :
                  \E d \in {DispatchTurn(a, env, action_history)} :
                    /\ conversation_state' = Some(d.st)
                    /\ action_history' = d.history
                    /\ turn' = Turn("process_message", Some(user_message), None,
                                    Some(d.response), Some(a.analysis),
                                    Some(a.strategy), d.calls)

\* end_conversation marking the session completed
EndConversationCompletes ==
  /\ turn.op # "end_conversation"
  /\ turn' = Turn("end_conversation", None, None,
                  Some(IF Started THEN ClosingText(Session)
                       ELSE "Thank you for your interest in Pharmesol!"),
                  None, None, <<>>)
  /\ conversation_state' =
       IF Started THEN Some([Session EXCEPT !.status = "completed"])
       ELSE conversation_state
  /\ UNCHANGED <<action_history, turns, starts>>

\* PharmacySalesChatbot.end_conversation()
EndConversation ==
  /\ turn.op # "end_conversation"
  /\ turn' = Turn("end_conversation", None, None,
                  Some(IF Started THEN ClosingText(Session)
                       ELSE "Thank you for your interest in Pharmesol!"),
                  None, None, <<>>)
  /\ UNCHANGED <<conversation_state, action_history, turns, starts>>

Next == StartConversation \/ ProcessMessage \/ EndConversation

Spec == Init /\ [][Next]_vars

\* ------------------------------------------------------------------------
\* A host that, on a started session, calls ActionHandler.execute_action
\* and ConversationState.add_action directly
\* ------------------------------------------------------------------------
InitHandler ==
  /\ \E phone_number \in Phones, api \in HandlerApis :
       \E st \in {ChatbotStartConversation(phone_number, api)} :
         /\ conversation_state = Some(st)
         /\ turn = StartTurn(phone_number, api, st)
  /\ action_history = <<>>
  /\ turns = 0
  /\ starts = 1

\* ActionHandler.execute_action(action_type, state, **kwargs)
ExecuteActionCall ==
  /\ turns < MaxCalls
  /\ turns' = turns + 1
  /\ UNCHANGED starts
  /\ \E action_type \in ActionTypes \cup {UnknownAction} :
       \E kwargs \in KwargsFor(action_type), env \in OutcomesOf(action_type) :
         \E x \in {ExecuteAction(action_type, Session, kwargs, env,
                                 action_history)} :
           /\ conversation_state' = Some(x.st)
           /\ action_history' = x.history
           /\ turn' = HandlerTurn([action_type |-> action_type,
                                   kwargs |-> kwargs], x.result)

\* ConversationState.add_action(action)
AddActionCall ==
  /\ turns < MaxCalls
  /\ turns' = turns + 1
  /\ \E action \in ActionTypes :
       /\ conversation_state' = Some(AddAction(Session, action))
       /\ turn' = Turn("add_action", Some(action), None, None, None, None, <<>>)
  /\ UNCHANGED <<action_history, starts>>

NextHandler == ExecuteActionCall \/ AddActionCall

SpecHandler == InitHandler /\ [][NextHandler]_vars

\* ------------------------------------------------------------------------
\* A host that, on a started session, calls
\* ConversationFlowManager.update_lead_data, ActionHandler.execute_action and
\* PharmacySalesChatbot.get_conversation_summary directly
\* ------------------------------------------------------------------------
\* the line update_lead_data logs, None when it returns before it
UpdateLogLine(st) ==
  IF IsSome(st.lead_data)
  THEN Some("Updated lead data: "
            \o NatStr(CompletionPercentage(Val(st.lead_data))) \o "% complete")
  ELSE None

\* ConversationFlowManager.update_lead_data(entities)
UpdateLeadDataCall ==
  /\ turns < MaxCalls
  /\ turns' = turns + 1
  /\ \E entities \in LeadEntities :
       \E st \in {UpdateLeadData(Session, entities)} :
         /\ conversation_state' = Some(st)
         /\ turn' = Turn("update_lead_data", Some(entities), None,
                         UpdateLogLine(st), None, None, <<>>)
  /\ UNCHANGED <<action_history, starts>>

\* PharmacySalesChatbot.get_conversation_summary()
GetConversationSummaryCall ==
  /\ turn.op # "get_conversation_summary"
  /\ turn' = [Turn("get_conversation_summary", None, None, None, None, None,
                   <<>>)
              EXCEPT !.result =
                Some(GetConversationSummary(Session, action_history))]
  /\ UNCHANGED <<conversation_state, action_history, turns, starts>>

NextLead == UpdateLeadDataCall \/ ExecuteActionCall \/ GetConversationSummaryCall

SpecLead == InitHandler /\ [][NextLead]_vars

\* ------------------------------------------------------------------------
\* A host driving the LLM-backed PharmacyChatbot (api/llm.py).  The chatbot
\* record is kept in conversation_state from construction on;
\* action_history is not used by this variant.
\* ------------------------------------------------------------------------
\* the PharmacyChatbot object
Bot == Val(conversation_state)

\* the variant the state belongs to
IsLlm == IsSome(conversation_state) /\ "conversation_history" \in DOMAIN Bot

InitLlm ==
  /\ conversation_state = Some(NewPharmacyChatbot)
  /\ action_history = <<>>
  /\ turn = Turn("none", None, None, None, None, None, <<>>)
  /\ turns = 0
  /\ starts = 0

\* PharmacyChatbot.start_conversation(phone_number, pharmacy_data)
LlmStartConversation ==
  /\ IsLlm
  /\ starts < MaxStarts
  /\ starts' = starts + 1
  /\ \E caller \in LlmCallers :
       \E bot \in {LlmStart(Bot, caller.phone_number, caller.pharmacy_data)} :
         /\ conversation_state' = Some(bot)
         /\ turn' = Turn("start_conversation", Some(caller),
                         None, Some(bot.conversation_history[1].content),
                         None, None, <<>>)
  /\ UNCHANGED <<action_history, turns>>

\* PharmacyChatbot.process_user_message(user_message)
LlmProcessUserMessage ==
  /\ IsLlm
  /\ turns < MaxTurns
  /\ turns' = turns + 1
  /\ \E user_message \in LlmMessages :
     \E x \in LlmExtractions(user_message) :
       \E env \in OutcomesForLlm(
                    IF x.kind = "not_a_dict" THEN None
                    ELSE ExtractMessageInformation(user_message, x).intent) :
         \E p \in {ProcessUserMessage(Bot, user_message, x, env)} :
           /\ conversation_state' = Some(p.out.bot)
           /\ turn' = Turn("process_user_message", Some(user_message),
                           p.out.raised, p.out.response, p.info, None,
                           p.out.calls)
  /\ UNCHANGED <<action_history, starts>>

\* PharmacyChatbot.end_conversation()
LlmEndConversation ==
  /\ IsLlm
  /\ turn.op # "end_conversation"
  /\ \E closing \in {LlmClosing(Bot)} :
       /\ conversation_state' = Some(LlmAppend(Bot, "assistant", closing))
       /\ turn' = Turn("end_conversation", None, None, Some(closing), None,
                       None, <<>>)
  /\ UNCHANGED <<action_history, turns, starts>>

NextLlm ==
  \/ LlmStartConversation
  \/ LlmProcessUserMessage
  \/ LlmEndConversation

SpecLlm == InitLlm /\ [][NextLlm]_vars

\* ------------------------------------------------------------------------
\* A host driving one chatbot of either variant: a PharmacySalesChatbot
\* (chatbot.py, with its ActionHandler) or a PharmacyChatbot (api/llm.py)
\* ------------------------------------------------------------------------
InitEither == Init \/ InitLlm

\* PharmacySalesChatbot.start_conversation(phone_number)
SalesStartConversation == ~IsLlm /\ StartConversation

\* PharmacySalesChatbot.process_message(user_message)
SalesProcessMessage == ~IsLlm /\ ProcessMessage

\* PharmacySalesChatbot.end_conversation()
SalesEndConversation == ~IsLlm /\ EndConversation

NextEither ==
  \/ SalesStartConversation
  \/ SalesProcessMessage
  \/ SalesEndConversation
  \/ LlmStartConversation
  \/ LlmProcessUserMessage
  \/ LlmEndConversation

SpecEither == InitEither /\ [][NextEither]_vars

\* ------------------------------------------------------------------------
\* Properties
\* ------------------------------------------------------------------------
\* the last call was a process_message that returned
Processed == turn.op = "process_message" /\ ~IsSome(turn.raised)

\* the names the list holds
Names(seq) == {seq[k] : k \in 1..Len(seq)}
\* how often the list holds x
Count(seq, x) == Cardinality({k \in 1..Len(seq) : seq[k] = x})
\* what the collaborator fn did in each call the list records
CallOutcomes(calls, fn) ==
  {calls[k].outcome : k \in {i \in 1..Len(calls) : calls[i].fn = fn}}

\* C1: in every state of a started session exactly one of pharmacy_data and
\* lead_data is present, and is_known_pharmacy is the presence of
\* pharmacy_data.
C1_ExactlyOneRecord ==
  Started =>
    /\ IsSome(Session.pharmacy_data) # IsSome(Session.lead_data)
    /\ IsKnownPharmacy(Session) = IsSome(Session.pharmacy_data)

\* a known-pharmacy session that has processed a message
C1_KnownSessionAfterTurn ==
  /\ Started /\ Processed
  /\ IsSome(Session.pharmacy_data) /\ ~IsSome(Session.lead_data)
  /\ Len(Session.messages) >= 3

\* C2: a process_message call on a started session returns and appends
\* exactly two messages to the history it found: the user's message with the
\* input text, then the assistant's message with the returned response.
C2_TwoMessagesPerTurn ==
  [][(turns' = turns + 1 /\ Started) =>
       LET before == Session.messages
           after == Val(conversation_state').messages
       IN /\ ~IsSome(turn'.raised)
          /\ Len(after) = Len(before) + 2
          /\ SubSeq(after, 1, Len(before)) = before
          /\ after[Len(before) + 1] =
               [role |-> "user", content |-> Val(turn'.input)]
          /\ after[Len(before) + 2] =
               [role |-> "assistant", content |-> Val(turn'.response)]]_vars

\* the second turn of a session ended on the failure path of send_email
C2_FailedEmailTurn ==
  /\ Started /\ Processed
  /\ Val(turn.strategy).response_type = "send_email"
  /\ turn.response = Some(EmailApology)
  /\ Len(Session.messages) = 5

\* C3: in a request_email turn the response type is ask_for_email exactly
\* when no email is known anywhere (none on the pharmacy record, none in the
\* lead data, none in the message), and send_email in every other case.
C3_AskForEmailIffNoEmailAnywhere ==
  (Processed /\ Val(turn.analysis).intent = "request_email") =>
    Val(turn.strategy).response_type =
      (IF ~HasEmail(Session) /\ ~HasKey(Val(turn.analysis).entities, "email")
       THEN "ask_for_email" ELSE "send_email")

\* the intent and confidence of the first rule that matches the message
FirstMatch(message_lower) ==
  IF IsEmailRequest(message_lower) THEN <<"request_email", 80>>
  ELSE IF IsCallbackRequest(message_lower) THEN <<"request_callback", 80>>
  ELSE IF IsPharmacyIntroduction(message_lower) THEN <<"pharmacy_introduction", 90>>
  ELSE IF IsPricingInquiry(message_lower) THEN <<"pricing_inquiry", 70>>
  ELSE IF IsGreeting(message_lower) THEN <<"greeting", 60>>
  ELSE <<"general_inquiry", 50>>

\* C4: the intent and confidence of a non-empty message are those of the
\* first matching rule in the order email, callback, introduction, pricing,
\* greeting, default; the empty message is unclear with confidence 0 and no
\* entities.
C4_FirstMatchingRule ==
  Processed =>
    LET message == Val(turn.input)
        analysis == Val(turn.analysis)
    IN IF message = ""
       THEN /\ analysis.intent = "unclear"
            /\ analysis.confidence = 0
            /\ analysis.entities = EmptyDict
       ELSE <<analysis.intent, analysis.confidence>> =
              FirstMatch(LowerStr(message))

\* a message with an email keyword and a callback keyword was classified
C4_EmailAndCallbackKeywords ==
  /\ Processed
  /\ IsEmailRequest(LowerStr(Val(turn.input)))
  /\ IsCallbackRequest(LowerStr(Val(turn.input)))
  /\ Val(turn.analysis).intent = "request_email"

\* C5: after a schedule_callback turn whose scheduler and follow-up creator
\* both succeeded, actions_taken holds 'schedule_callback' once and
\* 'create_follow_up' once.
C5_CallbackMarksBothActions ==
  (/\ Processed
   /\ Val(turn.strategy).response_type = "schedule_callback"
   /\ CallOutcomes(turn.calls, "schedule_callback") = {"ok"}
   /\ CallOutcomes(turn.calls, "create_follow_up_task") = {"ok"}) =>
    /\ Count(Session.actions_taken, "schedule_callback") = 1
    /\ Count(Session.actions_taken, "create_follow_up") = 1

\* the collaborator of the action itself returned failure or raised
OwnCollaboratorFailed(action_type, calls) ==
  \/ action_type = "send_email"
       /\ CallOutcomes(calls, "send_email") \cap {"fail", "raise"} # {}
  \/ action_type = "schedule_callback"
       /\ CallOutcomes(calls, "schedule_callback") = {"raise"}
  \/ action_type = "log_lead"
       /\ CallOutcomes(calls, "log_lead_information") \cap {"fail", "raise"} # {}

\* C6: execute_action changes actions_taken only by adding the name of an
\* action that reported success; it leaves actions_taken unchanged when the
\* action reported failure, when the collaborator of a send_email,
\* schedule_callback or log_lead returned failure or raised, and when the
\* action type is unknown.
C6_MarkedOnlyOnSuccess ==
  [][(turns' = turns + 1 /\ turn'.op = "execute_action") =>
       LET before == Session.actions_taken
           after == Val(conversation_state').actions_taken
           action_type == Val(turn'.input).action_type
           result == Val(turn'.result)
       IN /\ after # before =>
               result.success /\ after = Append(before, action_type)
          /\ ~result.success => after = before
          /\ OwnCollaboratorFailed(action_type, result.calls) =>
               ~result.success /\ after = before
          /\ action_type \notin ActionTypes =>
               ~result.success /\ after = before]_vars

\* a send_email whose sender raised, on a session with actions recorded
C6_EmailSenderRaised ==
  /\ turn.op = "execute_action"
  /\ Val(turn.input).action_type = "send_email"
  /\ CallOutcomes(turn.calls, "send_email") = {"raise"}
  /\ ~Val(turn.result).success
  /\ Len(Session.actions_taken) > 0

\* C7: add_action leaves actions_taken unchanged when it holds the name,
\* appends the name at the end when it does not, and so actions_taken holds
\* each name at most once, in the order of the first insertions.
C7_AddActionIdempotent ==
  [][(turns' = turns + 1 /\ turn'.op = "add_action") =>
       LET before == Session.actions_taken
           after == Val(conversation_state').actions_taken
           action == Val(turn'.input)
       IN /\ action \in Names(before) => after = before
          /\ action \notin Names(before) => after = Append(before, action)
          /\ \A name \in Names(after) : Count(after, name) = 1]_vars

\* add_action was called with the name inserted first, after another name
\* had been inserted
C7_RepeatedName ==
  /\ turn.op = "add_action"
  /\ Len(Session.actions_taken) >= 2
  /\ Session.actions_taken[1] = Val(turn.input)

\* the LLM call of the turn raised
LlmRaised(t) ==
  \E k \in 1..Len(t.calls) : t.calls[k].fn = "llm" /\ t.calls[k].outcome = "raise"

\* C8: a turn whose LLM call raised returns the fallback text, the
\* ask-for-email text when has_email is false and the specialist text when
\* it is true, and records no action.
C8_LlmFailureFallsBack ==
  [][(turns' = turns + 1 /\ Started /\ LlmRaised(turn')) =>
       /\ ~IsSome(turn'.raised)
       /\ turn'.response =
            Some(IF HasEmail(Val(conversation_state')) THEN FallbackSpecialist
                 ELSE FallbackAskEmail)
       /\ Val(conversation_state').actions_taken = Session.actions_taken
       /\ action_history' = action_history]_vars

\* the LLM raised in a session that has an email address
C8_LlmRaisedWithEmail ==
  /\ Started /\ Processed /\ LlmRaised(turn)
  /\ HasEmail(Session)
  /\ turn.response = Some(FallbackSpecialist)

\* the request failed or its body was no list of pharmacies
FailureKinds ==
  {"transport_error", "timeout", "http_error", "bad_json", "not_a_list"}
\* the lookup failed: the request failed, the list is empty, the list starts
\* with an item that is no record, or no record of the list has a phone
DirectoryFailure(api) ==
  \/ api.kind \in FailureKinds
  \/ api.body = <<>>
  \/ Head(api.body).shape # "dict"
  \/ \A k \in 1..Len(api.body) :
       api.body[k].shape = "dict" /\ ~IsSome(api.body[k].phone)

\* C9: when the directory lookup fails, lookup_pharmacy_by_phone returns
\* None, start_conversation returns, and the session has lead data and no
\* pharmacy record.
C9_LookupFailureIsNewLead ==
  (turn.op = "start_conversation" /\ DirectoryFailure(Val(turn.input).api)) =>
    /\ LookupPharmacyByPhone(Val(turn.input).phone_number,
                             Val(turn.input).api) = None
    /\ ~IsSome(turn.raised)
    /\ Started
    /\ IsSome(Session.lead_data) /\ ~IsSome(Session.pharmacy_data)

\* a session started from a list whose only record has no phone
C9_RecordWithoutPhone ==
  /\ turn.op = "start_conversation"
  /\ Val(turn.input).api = [kind |-> "json", body |-> <<NoPhone>>]
  /\ IsSome(Session.lead_data)

\* C10: process_message before any start_conversation raises RuntimeError,
\* creates no conversation state, records no message, runs no analysis and
\* calls no collaborator.
C10_ProcessBeforeStartRaises ==
  [][(turns' = turns + 1 /\ ~Started) =>
       /\ turn'.raised = Some("RuntimeError")
       /\ turn'.response = None
       /\ turn'.analysis = None /\ turn'.strategy = None
       /\ turn'.calls = <<>>
       /\ conversation_state' = None
       /\ action_history' = action_history]_vars

\* process_message raised on a chatbot that was never started
C10_RaisedBeforeStart ==
  /\ ~Started
  /\ turn.op = "process_message"
  /\ turn.raised = Some("RuntimeError")

\* the message names an address, a pharmacy and a prescription volume
NamesAllThree(message) ==
  /\ ExtractEmails(message) # {}
  /\ TruthyStr(ExtractPharmacyInfo(message).pharmacy_name)
  /\ TruthyInt(ExtractRxVolume(message))

\* C11: the entity kinds extracted do not depend on the intent: a lead
\* session's turn whose message has an email keyword, an address, a pharmacy
\* name and a prescription volume stores the email, the pharmacy name and the
\* volume in the lead data, and resolves to send_email.
C11_AllEntitiesWhateverIntent ==
  (/\ Processed /\ IsSome(Session.lead_data)
   /\ IsEmailRequest(LowerStr(Val(turn.input)))
   /\ NamesAllThree(Val(turn.input))) =>
    LET message == Val(turn.input)
        lead == Val(Session.lead_data)
    IN /\ lead.email \in {Some(e) : e \in ExtractEmails(message)}
       /\ lead.pharmacy_name = ExtractPharmacyInfo(message).pharmacy_name
       /\ lead.rx_volume = ExtractRxVolume(message)
       /\ Val(turn.strategy).response_type = "send_email"

\* the collaborator calls of the list that went to fn
CallsTo(calls, fn) == {calls[k] : k \in {i \in 1..Len(calls) : calls[i].fn = fn}}

\* the time phrase recognised in the message, 'during business hours' when
\* there is none
ResolvedTime(message) ==
  LET phrase == ExtractTimePreference(LowerStr(message))
  IN IF IsSome(phrase) THEN Val(phrase) ELSE "during business hours"

\* C12: in a schedule_callback turn the preferred time passed to the
\* scheduler, and shown in the confirmation, is the time phrase recognised in
\* the message, 'during business hours' when none is recognised; it is never
\* a null value.
C12_PreferredTimeResolved ==
  (Processed /\ Val(turn.strategy).response_type = "schedule_callback") =>
    /\ \A call \in CallsTo(turn.calls, "schedule_callback") :
         call.preferred_time = Some(ResolvedTime(Val(turn.input)))
    /\ CallOutcomes(turn.calls, "schedule_callback") = {"ok"} =>
         turn.response =
           Some("Callback scheduled for " \o ResolvedTime(Val(turn.input)))

\* C13: the entities of an analysis never map a key to a null placeholder;
\* a callback request without a recognised time phrase has no preferred_time
\* key, and its strategy carries no 'preferred_time: ...' context hint.
C13_NoNullEntity ==
  Processed =>
    LET entities == Val(turn.analysis).entities
        hints == Val(turn.strategy).context_hints
    IN /\ \A key \in DOMAIN entities : IsSome(entities[key])
       /\ (/\ Val(turn.analysis).intent = "request_callback"
           /\ ~IsSome(ExtractTimePreference(LowerStr(Val(turn.input))))) =>
            /\ ~HasKey(entities, "preferred_time")
            /\ \A k \in 1..Len(hints) : ~At(hints[k], 1, "preferred_time: ")

\* how many calls of the list went to fn
CountCalls(calls, fn) == Cardinality({i \in 1..Len(calls) : calls[i].fn = fn})

\* C14: in a send_email turn whose sender reports success, send_email is
\* recorded; a lead session then has the lead logger called exactly once and
\* log_lead recorded when the logger succeeds; a known-pharmacy session has the
\* logger never called and log_lead never recorded.  When the sender reports
\* failure the logger is not called, no action is recorded and the response is
\* the apology.
C14_EmailThenLeadLog ==
  [][(/\ turns' = turns + 1 /\ Started
      /\ turn'.op = "process_message"
      /\ Val(turn'.strategy).response_type = "send_email") =>
       LET before == Session.actions_taken
           after == Val(conversation_state').actions_taken
           calls == turn'.calls
           logged == CallOutcomes(calls, "log_lead_information")
       IN /\ CountCalls(calls, "send_email") = 1
          /\ CallOutcomes(calls, "send_email") = {"ok"} =>
               /\ "send_email" \in Names(after)
               /\ IsSome(Session.lead_data) =>
                    /\ CountCalls(calls, "log_lead_information") = 1
                    /\ logged = {"ok"} => "log_lead" \in Names(after)
                    /\ logged # {"ok"} => Names(after) = Names(before) \cup {"send_email"}
               /\ IsKnownPharmacy(Session) =>
                    /\ CountCalls(calls, "log_lead_information") = 0
                    /\ "log_lead" \notin Names(after)
          /\ CallOutcomes(calls, "send_email") # {"ok"} =>
               /\ CountCalls(calls, "log_lead_information") = 0
               /\ after = before
               /\ turn'.response = Some(EmailApology)]_vars

\* a lead session's send_email turn whose sender and logger both succeeded
C14_LeadMailedAndLogged ==
  /\ Started /\ Processed
  /\ Val(turn.strategy).response_type = "send_email"
  /\ IsSome(Session.lead_data)
  /\ CallOutcomes(turn.calls, "send_email") = {"ok"}
  /\ CallOutcomes(turn.calls, "log_lead_information") = {"ok"}
  /\ Session.actions_taken = <<"send_email", "log_lead">>

\* the LeadData fields update_lead_data can write
TrackedFields ==
  {"pharmacy_name", "contact_person", "email", "location", "rx_volume"}

\* C15: update_lead_data on a lead session writes exactly the tracked fields
\* whose keys the entities hold, the new value replacing the old one, and
\* leaves every other field of the lead data and of the session unchanged; on
\* a known-pharmacy session it changes nothing; no operation changes the
\* pharmacy record of a started session.
C15_UpdateWritesPresentKeys ==
  [][/\ conversation_state'[1].pharmacy_data = Session.pharmacy_data
     /\ turn'.op = "update_lead_data" =>
          LET entities == Val(turn'.input)
              after == Val(conversation_state')
          IN IF IsSome(Session.lead_data)
             THEN LET old == Val(Session.lead_data)
                      new == Val(after.lead_data)
                  IN /\ \A f \in TrackedFields :
                          new[f] = IF f \in DOMAIN entities THEN entities[f]
                                   ELSE old[f]
                     /\ \A f \in (DOMAIN old) \ TrackedFields : new[f] = old[f]
                     /\ DOMAIN new = DOMAIN old
                     /\ [after EXCEPT !.lead_data = Session.lead_data] = Session
             ELSE after = Session]_vars

\* a lead session whose email, written together with a volume of 500, was
\* then overwritten by another update
C15_EmailOverwritten ==
  /\ turn.op = "update_lead_data"
  /\ IsSome(Session.lead_data)
  /\ Val(Session.lead_data).rx_volume = Some(500)
  /\ Val(Session.lead_data).email = Some("ann@sun.co")
  /\ Val(turn.input) = Put(EmptyDict, "email", Some("ann@sun.co"))

\* the field holds a value: a non-zero number for rx_volume, a non-empty
\* string for the others
Populated(lead, f) ==
  /\ lead[f] # None
  /\ lead[f] # (IF f = "rx_volume" THEN Some(0) ELSE Some(""))

\* how many of the tracked fields of the lead data hold a value
PopulatedCount(lead) == Cardinality({f \in TrackedFields : Populated(lead, f)})

\* C16: completion_percentage is 20 times the number of populated fields
\* among pharmacy_name, contact_person, email, location and rx_volume, one of
\* 0, 20, 40, 60, 80, 100, and every read (the log line of update_lead_data,
\* the conversation summary) gives the value of the current fields.
C16_CompletionIsTwentyPerField ==
  (Started /\ IsSome(Session.lead_data)) =>
    LET lead == Val(Session.lead_data)
    IN /\ CompletionPercentage(lead) = 20 * PopulatedCount(lead)
       /\ CompletionPercentage(lead) \in {0, 20, 40, 60, 80, 100}
       /\ turn.op = "update_lead_data" =>
            turn.response = Some("Updated lead data: "
                                 \o NatStr(20 * PopulatedCount(lead))
                                 \o "% complete")
       /\ turn.op = "get_conversation_summary" =>
            Val(Val(turn.result).lead_data).completion_percentage =
              20 * PopulatedCount(lead)

\* a summary read of a lead with three populated fields and an empty
\* pharmacy name
C16_ThreeOfFive ==
  /\ turn.op = "get_conversation_summary"
  /\ IsSome(Session.lead_data)
  /\ Val(Session.lead_data).pharmacy_name = Some("")
  /\ PopulatedCount(Val(Session.lead_data)) = 3
  /\ Val(Val(turn.result).lead_data).completion_percentage = 60

\* an action collaborator returned failure or raised in one of the calls
ActionCollaboratorFailed(calls) ==
  \E k \in 1..Len(calls) :
    /\ calls[k].fn \in {"send_email", "schedule_callback",
                        "log_lead_information", "create_follow_up_task"}
    /\ calls[k].outcome \in {"fail", "raise"}

\* C17: in a process_message turn in which an action collaborator returned
\* failure or raised, the returned text holds neither the exception's text
\* nor the handler's internal failure message.
C17_FailureTextNotExposed ==
  (Processed /\ ActionCollaboratorFailed(turn.calls)) =>
    /\ ~Contains(Val(turn.response), ExcText)
    /\ ~Contains(Val(turn.response), "failed")
    /\ ~Contains(Val(turn.response), "error")

\* p is a prefix of s
IsPrefix(p, s) == Len(p) <= Len(s) /\ SubSeq(s, 1, Len(p)) = p

\* the session _handle_message_with_strategy was called on in the turn that
\* made t from st: the user message recorded and the entities merged
BeforeDispatch(t, st) ==
  AnalyzeTurn(Val(t.input), st, Get(Val(t.analysis).entities, "email")).st

\* C18: across a _handle_message_with_strategy call, whatever the response
\* type and the collaborators' outcomes, the actions_taken and the messages
\* it found are prefixes of those it leaves, and the lead data (and the
\* pharmacy record) it found are unchanged.
C18_DispatchIsAdditive ==
  [][(turns' = turns + 1 /\ Started /\ turn'.op = "process_message") =>
       \E before \in {BeforeDispatch(turn', Session)} :
         \E after \in {Val(conversation_state')} :
           /\ IsPrefix(before.actions_taken, after.actions_taken)
           /\ IsPrefix(before.messages, after.messages)
           /\ after.lead_data = before.lead_data
           /\ after.pharmacy_data = before.pharmacy_data
           /\ IsPrefix(action_history, action_history')]_vars

\* a callback was scheduled in a lead session that had an email stored and
\* two actions recorded
C18_ThirdActionAdded ==
  /\ Started /\ Processed
  /\ Val(turn.strategy).response_type = "schedule_callback"
  /\ Session.actions_taken = <<"send_email", "log_lead", "schedule_callback">>
  /\ IsSome(Session.lead_data)
  /\ TruthyStr(Val(Session.lead_data).email)
  /\ Len(Session.messages) = 5

\* C19: in a send_email dispatch the recipient is the address extracted from
\* the current message when there is one, and otherwise the stored address
\* (the pharmacy record's for a known session, the lead data's for a lead
\* session).
C19_MessageAddressFirst ==
  (Processed /\ Val(turn.strategy).response_type = "send_email") =>
    LET emails == ExtractEmails(Val(turn.input))
    IN /\ CountCalls(turn.calls, "send_email") = 1
       /\ \A call \in CallsTo(turn.calls, "send_email") :
            IF emails # {} THEN call.recipient_email \in emails
            ELSE Some(call.recipient_email) =
                   (IF IsKnownPharmacy(Session)
                    THEN Val(Session.pharmacy_data).email
                    ELSE Val(Session.lead_data).email)

\* a known pharmacy with an email on record was mailed at the other address
\* its message names
C19_KnownPharmacyOtherAddress ==
  /\ Started /\ Processed
  /\ Val(turn.strategy).response_type = "send_email"
  /\ IsKnownPharmacy(Session)
  /\ Val(Session.pharmacy_data).email = Some("rx@corner.com")
  /\ turn.input = Some("email me at ann@sun.co")
  /\ \E call \in CallsTo(turn.calls, "send_email") :
       call.recipient_email = "ann@sun.co"

\* C20: execute_action('send_email') with no email argument on a session
\* with no stored address gives the ask_for_email prompt as a successful
\* result, not a failure; the sender is not called and send_email is not
\* recorded.
C20_NoAddressAsksForEmail ==
  [][(/\ turn'.op = "execute_action"
      /\ Val(turn'.input).action_type = "send_email"
      /\ ~TruthyStr(Get(Val(turn'.input).kwargs, "email"))
      /\ ~TruthyStr(EmailAddress(Session))) =>
       /\ Val(turn'.result).success
       /\ Val(turn'.result).message =
            HandleAskForEmail(Session, EmptyDict, EmptyDict).message
       /\ CountCalls(turn'.calls, "send_email") = 0
       /\ Val(conversation_state').actions_taken = Session.actions_taken]_vars

\* the calls of the turn made on action collaborators that raised
RaisedCalls ==
  {i \in 1..Len(turn.calls) :
     /\ turn.calls[i].fn \in {"send_email", "log_lead_information",
                              "schedule_callback", "create_follow_up_task"}
     /\ turn.calls[i].outcome = "raise"}

\* the extraction call of the last process_user_message turn failed: the
\* LLM client raised or its reply was no JSON
ExtractionFailed ==
  /\ IsLlm
  /\ turn.op = "process_user_message"
  /\ turn.calls # <<>>
  /\ turn.calls[1].fn = "llm_extract"
  /\ turn.calls[1].outcome \in {"raise", "bad_json"}

CallbackTurn ==
  \/ /\ turn.op = "process_message"
     /\ IsSome(turn.strategy)
     /\ Val(turn.strategy).response_type = "schedule_callback"
  \/ /\ turn.op = "process_user_message"
     /\ IsSome(turn.analysis)
     /\ Val(turn.analysis).intent = Some("callback_request")
     /\ IsSome(Bot.phone_number)

\* the positions of the calls of the turn made on collaborator fn
CallPositions(fn) == {i \in 1..Len(turn.calls) : turn.calls[i].fn = fn}

\* C22: a turn handled as a callback request calls the callback scheduler
\* exactly once; when the scheduler returned, the follow-up task creator is
\* called exactly once, after the scheduler, with task type
\* 'callback_follow_up'; when the scheduler raised, the follow-up task
\* creator is not called.  This holds in both variants.
C22_SchedulerThenFollowUp ==
  CallbackTurn =>
    /\ Cardinality(CallPositions("schedule_callback")) = 1
    /\ \A i \in CallPositions("schedule_callback") :
         IF turn.calls[i].outcome = "raise"
         THEN CallPositions("create_follow_up_task") = {}
         ELSE /\ Cardinality(CallPositions("create_follow_up_task")) = 1
              /\ \A j \in CallPositions("create_follow_up_task") :
                   /\ j > i
                   /\ turn.calls[j].task_type = Some("callback_follow_up")

\* a callback turn of the LLM-backed chatbot whose scheduler raised
C22_LlmSchedulerRaised ==
  /\ CallbackTurn
  /\ turn.op = "process_user_message"
  /\ \E i \in CallPositions("schedule_callback") : turn.calls[i].outcome = "raise"
  /\ turn.raised = Some("ConnectionError")

\* C23: when the message of a turn holds two or more distinct well-formed
\* addresses, the email entity analyze_user_message reports is the address
\* occurring first in the message.
C23_FirstOccurringAddress ==
  (Processed /\ IsSome(turn.input)) =>
    With(FindAllEmails(Val(turn.input), 1),
         LAMBDA found :
           Cardinality({found[k] : k \in 1..Len(found)}) >= 2 =>
             Get(Val(turn.analysis).entities, "email") = Some(found[1]))

\* C24: the benefits text of every email sent to a lead is the one of the
\* volume tier PharmacyData.pharmacy_type assigns to the lead's volume.
C24_LeadTierIsPharmacyType ==
  (Started /\ IsSome(Session.lead_data)) =>
    \A i \in 1..Len(turn.calls) :
      turn.calls[i].fn = "send_email" =>
        turn.calls[i].benefits = PharmacyTypeOf(Val(Session.lead_data).rx_volume)

\* C25: every process_user_message call of a started conversation that
\* returns appends to conversation_history exactly one user entry holding
\* the message and then exactly one assistant entry holding the returned
\* response.
C25_UserThenAssistantEntry ==
  [][(IsLlm /\ IsSome(Bot.phone_number)
      /\ turn'.op = "process_user_message" /\ turn'.raised = None) =>
       Val(conversation_state').conversation_history =
         Bot.conversation_history
         \o <<[role |-> "user", content |-> Val(turn'.input)],
              [role |-> "assistant", content |-> Val(turn'.response)]>>]_vars

\* C26: a second start_conversation leaves nothing of the earlier call on
\* the object: a PharmacyChatbot is as one newly constructed and started
\* with the same arguments (lead data and history included), and the
\* ActionHandler of a PharmacySalesChatbot has an empty action_history.
C26_StartLeavesNothingBehind ==
  (turn.op = "start_conversation" /\ starts >= 2) =>
    IF IsLlm
    THEN Bot = LlmStart(NewPharmacyChatbot, Val(turn.input).phone_number,
                        Val(turn.input).pharmacy_data)
    ELSE action_history = <<>>

\* the session is that of a known pharmacy whose record has no email
KnownWithoutEmail ==
  /\ Started
  /\ ~IsLlm
  /\ IsSome(Session.pharmacy_data)
  /\ ~TruthyStr(Val(Session.pharmacy_data).email)

\* C27: in the session of a known pharmacy whose record has no email, no
\* state holds an email address (the record has none and there is no lead
\* data), 'send_email' is never recorded, no turn resolves to send_email or
\* calls the email sender, and every request_email turn is answered with
\* ask_for_email, whether or not its message holds an address.
C27_KnownWithoutEmailNeverMailed ==
  KnownWithoutEmail =>
    /\ Session.lead_data = None
    /\ "send_email" \notin Names(Session.actions_taken)
    /\ Processed =>
         /\ Val(turn.strategy).response_type # "send_email"
         /\ CallsTo(turn.calls, "send_email") = {}
         /\ Val(turn.analysis).intent = "request_email" =>
              Val(turn.strategy).response_type = "ask_for_email"

\* a request_email turn whose message holds an address, in the session of a
\* known pharmacy without email, answered with ask_for_email
C27_AddressInMessageStillAsked ==
  /\ KnownWithoutEmail
  /\ Processed
  /\ Val(turn.analysis).intent = "request_email"
  /\ HasKey(Val(turn.analysis).entities, "email")
  /\ Val(turn.strategy).response_type = "ask_for_email"

\* the messages explored that hold 'calling from', in any case
CallingFromMessages ==
  {m \in UserMessages : Contains(LowerStr(m), "calling from")}

\* C28: every process_message turn whose message holds 'calling from' is
\* classified request_email or request_callback, its entities hold neither
\* pharmacy_name nor location, and the turn leaves the pharmacy_name and the
\* location of the lead data as they were.
C28_CallingFromIsNoIntroduction ==
  [][(Started /\ ~IsLlm /\ turn'.op = "process_message"
      /\ Val(turn'.input) \in CallingFromMessages) =>
       /\ Val(turn'.analysis).intent \in {"request_email", "request_callback"}
       /\ ~HasKey(Val(turn'.analysis).entities, "pharmacy_name")
       /\ ~HasKey(Val(turn'.analysis).entities, "location")
       /\ IsSome(Session.lead_data) =>
            /\ Val(Val(conversation_state').lead_data).pharmacy_name =
                 Val(Session.lead_data).pharmacy_name
            /\ Val(Val(conversation_state').lead_data).location =
                 Val(Session.lead_data).location]_vars

\* a lead's turn whose message introduces the pharmacy with 'calling from'
\* and holds no email keyword: it is taken as a callback request and the
\* name the introduction rule would extract is not stored
C28_IntroductionTakenAsCallback ==
  /\ Processed
  /\ Val(turn.input) \in CallingFromMessages
  /\ Val(turn.analysis).intent = "request_callback"
  /\ IsSome(ExtractPharmacyInfo(Val(turn.input)).pharmacy_name)
  /\ IsSome(Session.lead_data)
  /\ Val(Session.lead_data).pharmacy_name = None

\* C29: in every state of a session driven through process_message, each
\* 'log_lead' in actions_taken has 'send_email' at an earlier position.
C29_LogLeadAfterSendEmail ==
  (Started /\ ~IsLlm) =>
    \A i \in 1..Len(Session.actions_taken) :
      Session.actions_taken[i] = "log_lead" =>
        \E j \in 1..(i - 1) : Session.actions_taken[j] = "send_email"

\* a lead session in which both actions are recorded
C29_LeadMailedThenLogged ==
  /\ Started
  /\ ~IsLlm
  /\ Processed
  /\ Session.actions_taken = <<"send_email", "log_lead">>

\* C30: the status of the session is 'active' in every state: no
\* start_conversation, process_message, dispatched action or
\* end_conversation moves it to completed, pending_email or
\* pending_callback.
C30_StatusAlwaysActive ==
  (Started /\ ~IsLlm) => Session.status = "active"

\* end_conversation was called on a session in which a callback was
\* scheduled
C30_EndedAfterCallback ==
  /\ Started
  /\ ~IsLlm
  /\ turn.op = "end_conversation"
  /\ "schedule_callback" \in Names(Session.actions_taken)
  /\ Session.status = "active"

====
